---- MODULE Spec2Model ----
(***************************************************************************)
(* Aadhaar masking: identifier extraction (src/src/ocr_detector.py),       *)
(* location resolution (src/src/ocr_detector.py), mask formatting and      *)
(* rendering (src/src/image_masker.py), the two pipelines that drive them  *)
(* (src/api.py process_single_image, src/main.py main) and the API host    *)
(* serving several requests (src/api.py process_image).                    *)
(*                                                                         *)
(* Strings are sequences of one-character strings.  Python's None is the   *)
(* empty sequence where the value is otherwise a string.                   *)
(***************************************************************************)
EXTENDS Integers, Sequences, FiniteSets, TLC

VARIABLES
    pc,              \* position of the call under study: "start" | "done"
    aadhaar_input,   \* argument of mask_aadhaar_number
    mask_result,     \* [raised, value] outcome of mask_aadhaar_number
    ocr_text,        \* argument of extract_aadhaar_number
    extracted,       \* return value of extract_aadhaar_number (<<>> = None)
    image_ok,        \* cv2.imread(image_path) returns an image (not None)
    use_easyocr,     \* AadhaarOCRDetector.use_easyocr
    results,         \* ocr_reader.readtext(image): fragments in emission order
    tesseract_text,  \* pytesseract.image_to_string(image)
    detection,       \* return value of detect_aadhaar_number_with_all_locations
    mode,            \* "api" (process_single_image) | "cli" (main --output) | "cli_no_output"
    stage,           \* "Detecting" | "Formatting" | "Rendering" | "Done" | "Failed" | "Idle"
    bboxes,          \* the locations the pipeline passes to the masker
    masked_number,   \* the pipeline's masked_number
    output_file,     \* the file at output_path
    response,        \* what the caller is told
    render_env,      \* what happened while rendering: [fault, write]
    background_color, \* argument of _get_text_color, a (b, g, r) triple
    text_color,      \* return value of _get_text_color (<<>> before the call)
    loop,            \* the request whose coroutine runs on the event loop, 0 when idle
    req,             \* per request of the API host: [at, store, status, image, output]
    ocr_users,       \* the requests for which a shared OCR backend is executing
    uploads,         \* the files of UPLOAD_DIR: path -> the request whose bytes it holds
    located_box,     \* return value of find_text_location_in_image (<<>> = None)
    location_box,    \* the (x, y, width, height) location handed to the renderer
    padded_box,      \* the box after the renderer's padding (lines 564-569, 633-638)
    filled_box,      \* the rectangle _draw_blended_rectangle fills
    bg_box,          \* the (x, y, width, height) argument of _get_background_color
    image_color,     \* the (b, g, r) colour of the image's pixels
    bg_strategy,     \* the return statement of _get_background_color that ran
    font_box,        \* (target_width, target_height) and origin of the padded box
    text_metrics,    \* cv2.getTextSize: the glyph metrics of the font
    font_scale,      \* return value of _calculate_font_scale, in tenths
    text_origin,     \* (text_x, text_y) handed to cv2.putText
    entry_point,     \* the render entry point under study
    render_pos,      \* position inside the render entry point
    render_trace,    \* the steps the entry point has run, in order
    written,         \* the file at output_path after the call
    returned,        \* what the render entry point returned: "True" | "False" | "none"
    flag_before,     \* use_easyocr before detect_with_multiple_methods
    multi_result     \* return value of detect_with_multiple_methods

maskVars == <<aadhaar_input, mask_result>>
extractVars == <<ocr_text, extracted>>
imageVars == <<image_ok, use_easyocr, results, tesseract_text>>
pipelineVars == <<mode, stage, bboxes, masked_number, output_file, response, render_env>>
colorVars == <<background_color, text_color>>
hostVars == <<loop, req, ocr_users, uploads>>
locateVars == <<located_box>>
padVars == <<location_box, padded_box, filled_box>>
bgVars == <<bg_box, image_color, bg_strategy>>
fontVars == <<font_box, text_metrics, font_scale, text_origin>>
renderVars == <<entry_point, render_pos, render_trace, written, returned>>
multiVars == <<flag_before, multi_result>>
unitVars == <<locateVars, padVars, bgVars, fontVars, renderVars, multiVars>>
vars == <<pc, maskVars, extractVars, imageVars, detection, pipelineVars, colorVars, hostVars, unitVars>>

-----------------------------------------------------------------------------
(* Characters and elementary string functions                              *)

Digits == {"0", "1", "2", "3", "4", "5", "6", "7", "8", "9"}

Letters == {"a", "b", "X", "M", "s", "k", "e", "d", "_"}

\* re: \d
IsDigit(c) == c \in Digits

\* re: \s (only the space is drawn by the inputs below)
IsSpace(c) == c \in {" ", "\t", "\n"}

\* re: \w
IsWord(c) == c \in Digits \cup Letters

None == <<>>

\* detect_aadhaar_number_with_all_locations returning None
NotDetected == [found |-> FALSE, aadhaar_number |-> None, all_locations |-> <<>>]

\* no file at output_path
NoFile == [written |-> FALSE, regions |-> <<>>, overlay |-> None]

NoResponse == [status |-> 0, success |-> FALSE, locations_found |-> 0]

\* the detector's part of the state while another function is studied
ResolveIdle ==
    /\ image_ok = TRUE /\ use_easyocr = TRUE /\ results = <<>> /\ tesseract_text = <<>>
    /\ detection = NotDetected

\* no exception while rendering, cv2.imwrite wrote the file
NoFault == [fault |-> 0, write |-> "ok"]

PipelineIdle ==
    /\ mode = "api" /\ stage = "Idle" /\ bboxes = <<>> /\ masked_number = None
    /\ output_file = NoFile /\ response = NoResponse /\ render_env = NoFault

ColorIdle == background_color = <<0, 0, 0>> /\ text_color = <<>>

HostIdle == loop = 0 /\ req = <<>> /\ ocr_users = {} /\ uploads = <<>>

LocateIdle == located_box = <<>>
PadIdle == location_box = <<0, 0, 0, 0>> /\ padded_box = <<>> /\ filled_box = <<>>
BackgroundIdle == bg_box = <<0, 0, 0, 0>> /\ image_color = <<0, 0, 0>> /\ bg_strategy = "none"
FontIdle == font_box = <<0, 0, 0, 0>> /\ text_metrics = <<0, 0>> /\ font_scale = 0 /\ text_origin = <<>>
RenderIdle ==
    /\ entry_point = "none" /\ render_pos = "idle" /\ render_trace = <<>>
    /\ written = FALSE /\ returned = "none"
MultiIdle == flag_before = FALSE /\ multi_result = None
UnitIdle == LocateIdle /\ PadIdle /\ BackgroundIdle /\ FontIdle /\ RenderIdle /\ MultiIdle

RECURSIVE Filter(_, _)
Filter(s, keep) ==
    IF s = <<>> THEN <<>>
    ELSE (IF Head(s) \in keep THEN <<Head(s)>> ELSE <<>>) \o Filter(Tail(s), keep)

RECURSIVE Remove(_, _)
Remove(s, drop) ==
    IF s = <<>> THEN <<>>
    ELSE (IF Head(s) \in drop THEN <<>> ELSE <<Head(s)>>) \o Remove(Tail(s), drop)

\* re.sub(r'\D', '', s)
DigitsOnly(s) == Filter(s, Digits)

\* s.replace(' ', '')
ReplaceSpaces(s) == Remove(s, {" "})

\* Python slice s[a:b] with 0 <= a <= b (clamped to the length)
Slice(s, a, b) ==
    LET hi == IF b > Len(s) THEN Len(s) ELSE b
    IN  IF a >= hi THEN <<>> ELSE SubSeq(s, a + 1, hi)

RECURSIVE Concat(_)
Concat(ss) == IF ss = <<>> THEN <<>> ELSE Head(ss) \o Concat(Tail(ss))

-----------------------------------------------------------------------------
(* AadhaarImageMasker.mask_aadhaar_number                                  *)

MaskPrefixK4(digits_only) == <<"X", "X", "X", "X">> \o Slice(digits_only, 4, Len(digits_only))

MaskPrefixSeven(digits_only) ==
    <<"X", "X", "X", "X", "X", "X", "X">> \o Slice(digits_only, 7, Len(digits_only))

\* 'XXXXXXXX' + digits_only[8:]
MaskPrefix(digits_only) ==
    <<"X", "X", "X", "X", "X", "X", "X", "X">> \o Slice(digits_only, 8, Len(digits_only))

\* f"{masked[:4]} {masked[4:8]} {masked[8:12]}"
FormatGroups(s) == Slice(s, 0, 4) \o <<" ">> \o Slice(s, 4, 8) \o <<" ">> \o Slice(s, 8, 12)

\* the guard of line 30: not aadhaar_number or len(aadhaar_number.replace(' ', '')) != 12
MaskRejects(aadhaar_number) ==
    aadhaar_number = <<>> \/ Len(ReplaceSpaces(aadhaar_number)) # 12

mask_aadhaar_number(aadhaar_number) ==
    IF MaskRejects(aadhaar_number)
    THEN [raised |-> TRUE, value |-> None]
    ELSE [raised |-> FALSE,
          value  |-> FormatGroups(MaskPrefix(ReplaceSpaces(aadhaar_number)))]

NoMaskResult == [raised |-> FALSE, value |-> None]

-----------------------------------------------------------------------------
(* AadhaarOCRDetector.extract_aadhaar_number                               *)

\* re.sub(r'[^\d\s]', ' ', ocr_text)
CleanText(s) == [i \in 1..Len(s) |-> IF IsDigit(s[i]) \/ IsSpace(s[i]) THEN s[i] ELSE " "]

\* re \b at the gap after position p (0 = before the first character)
AtBoundary(s, p) ==
    LET before == p >= 1 /\ p <= Len(s) /\ IsWord(s[p])
        after  == p + 1 >= 1 /\ p + 1 <= Len(s) /\ IsWord(s[p + 1])
    IN  before # after

\* \d{n} at position i
DigitsAt(s, i, n) == i >= 1 /\ i + n - 1 <= Len(s) /\ \A k \in i..(i + n - 1) : IsDigit(s[k])

\* greedy \s* from position i: the first position at or after i that is not white space
RECURSIVE SkipSpaces(_, _)
SkipSpaces(s, i) ==
    IF i >= 1 /\ i <= Len(s) /\ IsSpace(s[i]) THEN SkipSpaces(s, i + 1) ELSE i

MatchPattern1Unanchored(s, i) == IF DigitsAt(s, i, 12) THEN i + 11 ELSE 0

\* r'\b\d{12}\b' anchored at i: index of the last matched character, 0 = no match
MatchPattern1(s, i) ==
    IF AtBoundary(s, i - 1) /\ DigitsAt(s, i, 12) /\ AtBoundary(s, i + 11)
    THEN i + 11 ELSE 0

\* r'\b\d{4}\s+\d{4}\s+\d{4}\b' anchored at i
MatchPattern2(s, i) ==
    LET j == SkipSpaces(s, i + 4)
        k == SkipSpaces(s, j + 4)
    IN  IF /\ AtBoundary(s, i - 1)
           /\ DigitsAt(s, i, 4) /\ j > i + 4
           /\ DigitsAt(s, j, 4) /\ k > j + 4
           /\ DigitsAt(s, k, 4) /\ AtBoundary(s, k + 3)
        THEN k + 3 ELSE 0

\* r'\b(?:\d{4}[\s]*){3}\b' anchored at i: the trailing [\s]* is greedy and
\* backtracks to the longest prefix after which \b holds
MatchPattern3(s, i) ==
    LET j == SkipSpaces(s, i + 4)
        k == SkipSpaces(s, j + 4)
        e == k + 3
        t == SkipSpaces(s, e + 1) - 1
    IN  IF AtBoundary(s, i - 1) /\ DigitsAt(s, i, 4) /\ DigitsAt(s, j, 4) /\ DigitsAt(s, k, 4)
        THEN IF AtBoundary(s, t) THEN t
             ELSE IF AtBoundary(s, e) THEN e ELSE 0
        ELSE 0

MatchAt(pattern, s, i) ==
    CASE pattern = 1 -> MatchPattern1(s, i)
      [] pattern = 2 -> MatchPattern2(s, i)
      [] pattern = 3 -> MatchPattern3(s, i)

\* re.findall(pattern, s): the non-overlapping matches, scanning left to right
RECURSIVE FindAllFrom(_, _, _)
FindAllFrom(pattern, s, pos) ==
    IF pos > Len(s) THEN <<>>
    ELSE LET e == MatchAt(pattern, s, pos)
         IN  IF e # 0 THEN <<SubSeq(s, pos, e)>> \o FindAllFrom(pattern, s, e + 1)
             ELSE FindAllFrom(pattern, s, pos + 1)

FindAll(pattern, s) == FindAllFrom(pattern, s, 1)

PatternsSwapped == <<2, 1, 3>>

\* patterns = [pattern1, pattern2, pattern3]
Patterns == <<1, 2, 3>>

FormatNoSpaces(digits_only) == Slice(digits_only, 0, 12)

\* the three slices joined in the wrong order
FormatGroupsRotated(digits_only) ==
    Slice(digits_only, 4, 8) \o <<" ">> \o Slice(digits_only, 8, 12) \o <<" ">>
        \o Slice(digits_only, 0, 4)

\* f"{digits_only[:4]} {digits_only[4:8]} {digits_only[8:12]}"
FormatIdentifier(digits_only) == FormatGroups(digits_only)

\* for match in matches: the first match whose digits_only has length 12
RECURSIVE FirstAccepted(_)
FirstAccepted(matches) ==
    IF matches = <<>> THEN None
    ELSE LET digits_only == DigitsOnly(Head(matches))
         IN  IF Len(digits_only) = 12 THEN FormatIdentifier(digits_only)
             ELSE FirstAccepted(Tail(matches))

\* for pattern in patterns: ... return formatted; after the loop: return None
RECURSIVE TryPatterns(_, _)
TryPatterns(patterns, cleaned_text) ==
    IF patterns = <<>> THEN None
    ELSE LET formatted == FirstAccepted(FindAll(Head(patterns), cleaned_text))
         IN  IF formatted # None THEN formatted
             ELSE TryPatterns(Tail(patterns), cleaned_text)

extract_aadhaar_number(text) == TryPatterns(Patterns, CleanText(text))

-----------------------------------------------------------------------------
(* Inputs of the two string functions                                      *)

MaxMaskTokens == 5
MaxTextTokens == 5

G1234 == <<"1", "2", "3", "4">>
G5678 == <<"5", "6", "7", "8">>
G9012 == <<"9", "0", "1", "2">>
G901a == <<"9", "0", "1", "a">>
Run12 == <<"1", "1", "1", "1", "2", "2", "2", "2", "3", "3", "3", "3">>
Spaced == <<"4", "4", "4", "4", " ", "5", "5", "5", "5", " ", "6", "6", "6", "6">>

MaskTokens == {G1234, G5678, G9012, G901a, <<" ">>, <<"1", "2">>}

TextTokens == {G1234, G5678, Run12, Spaced, <<" ">>, <<"a">>, <<"7">>}

TokenLists(tokens, n) == UNION {[1..k -> tokens] : k \in 0..n}

\* strings the function has returned, handed to it again
MaskedPrefix == <<"X", "X", "X", "X", " ", "X", "X", "X", "X", " ">>
MaskedStrings == {MaskedPrefix \o g : g \in {G1234, G5678, G9012, G901a}}

MaskInputs == {Concat(ts) : ts \in TokenLists(MaskTokens, MaxMaskTokens)} \cup MaskedStrings

\* texts of src/test_detection.py: "1234567890123456" and "4 1414 4 4 03/03/2013"
Text16Digits == <<"1", "2", "3", "4", "5", "6", "7", "8", "9", "0", "1", "2", "3", "4", "5", "6">>
TextScattered == <<"4", " ", "1", "4", "1", "4", " ", "4", " ", "4", " ", "0", "3", "/", "0", "3", "/", "2", "0", "1", "3">>

TextInputs ==
    {Concat(ts) : ts \in TokenLists(TextTokens, MaxTextTokens)} \cup {Text16Digits, TextScattered}

-----------------------------------------------------------------------------
(* Specification of mask_aadhaar_number on its own                         *)

MaskIdle == /\ aadhaar_input = <<>> /\ mask_result = NoMaskResult
ExtractIdle == /\ ocr_text = <<>> /\ extracted = None

InitMask ==
    /\ pc = "start"
    /\ aadhaar_input \in MaskInputs
    /\ mask_result = NoMaskResult
    /\ ExtractIdle /\ ResolveIdle /\ PipelineIdle /\ ColorIdle /\ HostIdle /\ UnitIdle

MaskAadhaarNumber ==
    /\ pc = "start"
    /\ mask_result' = mask_aadhaar_number(aadhaar_input)
    /\ pc' = "done"
    /\ UNCHANGED <<aadhaar_input, extractVars, imageVars, detection, pipelineVars, colorVars, hostVars, unitVars>>

NextMask == MaskAadhaarNumber

SpecMask == InitMask /\ [][NextMask]_vars

-----------------------------------------------------------------------------
(* Specification of extract_aadhaar_number on its own                      *)

InitExtract ==
    /\ pc = "start"
    /\ ocr_text \in TextInputs
    /\ extracted = None
    /\ MaskIdle /\ ResolveIdle /\ PipelineIdle /\ ColorIdle /\ HostIdle /\ UnitIdle

ExtractAadhaarNumber ==
    /\ pc = "start"
    /\ extracted' = extract_aadhaar_number(ocr_text)
    /\ pc' = "done"
    /\ UNCHANGED <<ocr_text, maskVars, imageVars, detection, pipelineVars, colorVars, hostVars, unitVars>>

NextExtract == ExtractAadhaarNumber

SpecExtract == InitExtract /\ [][NextExtract]_vars

-----------------------------------------------------------------------------
(* AadhaarOCRDetector: text of an image and location resolution            *)
(* A fragment is [bbox, text, conf]; bbox is the polygon as a sequence of  *)
(* <<x, y>> points, conf is the confidence in percent.                     *)

\* conf > 0.5 (ocr_detector.py lines 84, 206, 221, 229, 271), in percent
ConfThreshold == 50

\* abs(y1_center - y2_center) < 50
SameLineTolerance == 50

\* abs(x - existing_x) < 50 and abs(y - existing_y) < 50
DedupTolerance == 50

Abs(n) == IF n < 0 THEN 0 - n ELSE n

SeqMin(q) == CHOOSE m \in {q[i] : i \in 1..Len(q)} : \A i \in 1..Len(q) : m <= q[i]
SeqMax(q) == CHOOSE m \in {q[i] : i \in 1..Len(q)} : \A i \in 1..Len(q) : m >= q[i]

\* [p[0] for p in bbox], [p[1] for p in bbox]
XCoords(bbox) == [i \in 1..Len(bbox) |-> bbox[i][1]]
YCoords(bbox) == [i \in 1..Len(bbox) |-> bbox[i][2]]

AboveThresholdLow(frag) == frag.conf > ConfThreshold - 20

AboveThreshold(frag) == frag.conf > ConfThreshold

\* " ".join(texts)
RECURSIVE JoinWithSpaces(_)
JoinWithSpaces(texts) ==
    IF texts = <<>> THEN <<>>
    ELSE IF Len(texts) = 1 THEN Head(texts)
    ELSE Head(texts) \o <<" ">> \o JoinWithSpaces(Tail(texts))

RECURSIVE SelectSeq2(_, _)
SelectSeq2(q, keep) ==
    IF q = <<>> THEN <<>>
    ELSE (IF Head(q) \in keep THEN <<Head(q)>> ELSE <<>>) \o SelectSeq2(Tail(q), keep)

\* str.strip()
RECURSIVE LStrip(_)
LStrip(s) == IF s # <<>> /\ IsSpace(Head(s)) THEN LStrip(Tail(s)) ELSE s

RECURSIVE RStrip(_)
RStrip(s) == IF s # <<>> /\ IsSpace(s[Len(s)]) THEN RStrip(SubSeq(s, 1, Len(s) - 1)) ELSE s

Strip(s) == RStrip(LStrip(s))

\* " ".join([text for (bbox, text, conf) in results if conf > 0.5])
AllText(res) ==
    LET kept == SelectSeq2(res, {f \in {res[i] : i \in 1..Len(res)} : AboveThreshold(f)})
    IN  JoinWithSpaces([i \in 1..Len(kept) |-> kept[i].text])

\* extract_text_easyocr: extracted_text += text + " " for conf > 0.5, then strip()
RECURSIVE AppendTexts(_)
AppendTexts(res) ==
    IF res = <<>> THEN <<>>
    ELSE (IF AboveThreshold(Head(res)) THEN Head(res).text \o <<" ">> ELSE <<>>)
         \o AppendTexts(Tail(res))

extract_text_easyocr(res) == Strip(AppendTexts(res))

\* extract_text_tesseract: text.strip()
extract_text_tesseract(text) == Strip(text)

\* detect_aadhaar_number: None when the image cannot be loaded (the ValueError
\* of preprocess_image is caught), else the identifier of the OCR text
detect_aadhaar_number(ok, easy, res, tess) ==
    IF ~ok THEN None
    ELSE IF easy THEN extract_aadhaar_number(extract_text_easyocr(res))
    ELSE extract_aadhaar_number(extract_text_tesseract(tess))

\* text1_digits in target_digits
IsSubstring(d, s) == \E i \in 0..(Len(s) - Len(d)) : SubSeq(s, i + 1, i + Len(d)) = d

\* len(text_digits) == 4 and text_digits in target_digits, for a fragment above the threshold
IsGroupPart(frag, target_digits) ==
    /\ AboveThreshold(frag)
    /\ Len(DigitsOnly(frag.text)) = 4
    /\ IsSubstring(DigitsOnly(frag.text), target_digits)

\* abs(y1_center - y2_center) < 50 with y_center = (min + max) / 2, doubled to stay in the integers
SameLine(bbox1, bbox2) ==
    Abs((SeqMin(YCoords(bbox1)) + SeqMax(YCoords(bbox1)))
        - (SeqMin(YCoords(bbox2)) + SeqMax(YCoords(bbox2)))) < 2 * SameLineTolerance

\* group = [(text1, bbox1)] followed by every other part on the same line, in emission order
RECURSIVE NearbyParts(_, _, _, _)
NearbyParts(res, i, j, target_digits) ==
    IF j > Len(res) THEN <<>>
    ELSE (IF i # j /\ IsGroupPart(res[j], target_digits) /\ SameLine(res[i].bbox, res[j].bbox)
          THEN <<res[j]>> ELSE <<>>)
         \o NearbyParts(res, i, j + 1, target_digits)

GroupOf(res, i, target_digits) == <<res[i]>> \o NearbyParts(res, i, 1, target_digits)

\* the combined bounding box (x, y, width, height) of a group
UnionBox(group) ==
    LET all_x == Concat([i \in 1..Len(group) |-> XCoords(group[i].bbox)])
        all_y == Concat([i \in 1..Len(group) |-> YCoords(group[i].bbox)])
        x == SeqMin(all_x)
        y == SeqMin(all_y)
    IN  <<x, y, SeqMax(all_x) - x, SeqMax(all_y) - y>>

\* Method 1: for i, (bbox1, text1, conf1) in enumerate(results)
RECURSIVE GroupLocations(_, _, _)
GroupLocations(res, i, target_digits) ==
    IF i > Len(res) THEN <<>>
    ELSE LET group == GroupOf(res, i, target_digits)
             group_digits == Concat([k \in 1..Len(group) |-> DigitsOnly(group[k].text)])
         IN  (IF /\ IsGroupPart(res[i], target_digits)
                 /\ Len(group) = 3
                 /\ group_digits = target_digits
              THEN <<UnionBox(group)>> ELSE <<>>)
             \o GroupLocations(res, i + 1, target_digits)

\* target_digits in text_digits and len(text_digits) >= 12, for a fragment above the threshold
ContainsFullNumber(frag, target_digits) ==
    /\ AboveThreshold(frag)
    /\ IsSubstring(target_digits, DigitsOnly(frag.text))
    /\ Len(DigitsOnly(frag.text)) >= 12

\* (x, y, width, height) of one fragment's polygon
BoxOf(bbox) ==
    <<SeqMin(XCoords(bbox)), SeqMin(YCoords(bbox)),
      SeqMax(XCoords(bbox)) - SeqMin(XCoords(bbox)),
      SeqMax(YCoords(bbox)) - SeqMin(YCoords(bbox))>>

\* abs(x - existing_x) < 50 and abs(y - existing_y) < 50
NearCorner(a, b) == Abs(a[1] - b[1]) < DedupTolerance /\ Abs(a[2] - b[2]) < DedupTolerance

IsDuplicate(box, all_locations) ==
    \E k \in 1..Len(all_locations) : NearCorner(box, all_locations[k])

\* the duplicate test made on x alone
RECURSIVE SingleLocationsNearInX(_, _, _, _)
SingleLocationsNearInX(res, i, target_digits, all_locations) ==
    IF i > Len(res) THEN all_locations
    ELSE LET box == BoxOf(res[i].bbox)
             near == \E k \in 1..Len(all_locations) :
                        Abs(box[1] - all_locations[k][1]) < DedupTolerance
         IN  IF ContainsFullNumber(res[i], target_digits) /\ ~near
             THEN SingleLocationsNearInX(res, i + 1, target_digits, Append(all_locations, box))
             ELSE SingleLocationsNearInX(res, i + 1, target_digits, all_locations)

\* Method 2: for (bbox, text, conf) in results, appending to all_locations
RECURSIVE SingleLocations(_, _, _, _)
SingleLocations(res, i, target_digits, all_locations) ==
    IF i > Len(res) THEN all_locations
    ELSE LET box == BoxOf(res[i].bbox)
         IN  IF ContainsFullNumber(res[i], target_digits) /\ ~IsDuplicate(box, all_locations)
             THEN SingleLocations(res, i + 1, target_digits, Append(all_locations, box))
             ELSE SingleLocations(res, i + 1, target_digits, all_locations)

\* the single-fragment matches collected first, the groups appended after them
AllLocationsSinglesFirst(res, aadhaar_number) ==
    LET target_digits == ReplaceSpaces(aadhaar_number)
    IN  SingleLocations(res, 1, target_digits, <<>>) \o GroupLocations(res, 1, target_digits)

\* all_locations after Method 1 and Method 2
AllLocations(res, aadhaar_number) ==
    LET target_digits == ReplaceSpaces(aadhaar_number)
    IN  SingleLocations(res, 1, target_digits, GroupLocations(res, 1, target_digits))

Detected(number, locations) ==
    [found |-> TRUE, aadhaar_number |-> number, all_locations |-> locations]

FallbackDropped(ok, easy, res, tess) == NotDetected

\* lines 298-303: detect_aadhaar_number(image_path), returned with no location
FallbackDetection(ok, easy, res, tess) ==
    LET aadhaar_number == detect_aadhaar_number(ok, easy, res, tess)
    IN  IF aadhaar_number # None THEN Detected(aadhaar_number, <<>>) ELSE NotDetected

detect_aadhaar_number_with_all_locations(ok, easy, res, tess) ==
    IF ~ok THEN NotDetected
    ELSE IF easy
    THEN LET aadhaar_number == extract_aadhaar_number(AllText(res))
             all_locations == AllLocations(res, aadhaar_number)
         IN  IF aadhaar_number # None /\ all_locations # <<>>
             THEN Detected(aadhaar_number, all_locations)
             ELSE FallbackDetection(ok, easy, res, tess)
    ELSE FallbackDetection(ok, easy, res, tess)

-----------------------------------------------------------------------------
(* OCR output drawn for the resolver                                       *)

MaxFragments == 3

\* an axis-aligned polygon in EasyOCR's corner order
Box(x, y, w, h) == <<<<x, y>>, <<x + w, y>>, <<x + w, y + h>>, <<x, y + h>>>>

FullText == G1234 \o <<" ">> \o G5678 \o <<" ">> \o G9012

\* a fragment printed at (x, y): 12 pixels per character, 20 pixels high
Fragment(text, x, y, conf) ==
    [bbox |-> Box(x, y, 12 * Len(text), 20), text |-> text, conf |-> conf]

\* top edges 0, 30 and 50: 30 apart is the same line, 50 apart is not
GroupPositions == {<<100, 0>>, <<160, 0>>, <<220, 0>>, <<100, 30>>, <<160, 50>>}

FullPositions == {<<100, 0>>, <<100, 30>>, <<150, 30>>, <<100, 50>>}

GroupFragments ==
    {Fragment(t, at[1], at[2], 90) : t \in {G1234, G5678, G9012}, at \in GroupPositions}

FullFragments == {Fragment(FullText, at[1], at[2], 90) : at \in FullPositions}

WeakFragments ==
    {Fragment(FullText, 100, 0, 40), Fragment(FullText, 100, 0, 50), Fragment(G1234, 100, 0, 40)}

FragmentPool == GroupFragments \cup FullFragments \cup WeakFragments

\* the OCR backend reports each piece of text once: no two polygons overlap
Overlap(f, g) ==
    LET a == BoxOf(f.bbox)
        b == BoxOf(g.bbox)
    IN  /\ a[1] < b[1] + b[3] /\ b[1] < a[1] + a[3]
        /\ a[2] < b[2] + b[4] /\ b[2] < a[2] + a[4]

ListsOver(pool, n) ==
    {fs \in UNION {[1..k -> pool] : k \in 0..n} :
        \A i, j \in 1..Len(fs) : i # j => ~Overlap(fs[i], fs[j])}

FragmentLists(n) == ListsOver(FragmentPool, n)

\* the identifier printed as three groups on one line, in reading order
GroupLine ==
    <<Fragment(G1234, 100, 0, 90), Fragment(G5678, 160, 0, 90), Fragment(G9012, 220, 0, 90)>>

\* digits 3..6 of "123456789012": a 4-digit part of it that is none of its groups
G3456 == <<"3", "4", "5", "6">>
G7777 == <<"7", "7", "7", "7">>

\* a fourth fragment next to the line: the whole identifier printed below it
\* (30 or 50 lower), or another 4-digit number on the line or below it
ExtraFragments ==
    {Fragment(FullText, 100, 30, 90), Fragment(FullText, 100, 50, 90),
     Fragment(G3456, 280, 0, 90), Fragment(G3456, 280, 50, 90), Fragment(G3456, 280, 0, 40),
     Fragment(G7777, 280, 0, 90)}

InsertAt(fs, k, f) == SubSeq(fs, 1, k) \o <<f>> \o SubSeq(fs, k + 1, Len(fs))

LineWithExtra == {InsertAt(GroupLine, k, f) : k \in 0..3, f \in ExtraFragments}

TesseractTexts == {<<>>, FullText \o <<"\n">>, G1234 \o G5678 \o <<"\n">> \o G9012}

-----------------------------------------------------------------------------
(* Specification of detect_aadhaar_number_with_all_locations on its own    *)

InitResolve ==
    /\ pc = "start"
    /\ \/ /\ image_ok = TRUE /\ use_easyocr = TRUE
          /\ results \in FragmentLists(MaxFragments) /\ tesseract_text = <<>>
       \/ /\ image_ok = TRUE /\ use_easyocr = FALSE
          /\ results \in FragmentLists(1) /\ tesseract_text \in TesseractTexts
       \/ /\ image_ok = FALSE /\ use_easyocr \in BOOLEAN
          /\ results \in FragmentLists(1) /\ tesseract_text = <<>>
       \/ /\ image_ok = TRUE /\ use_easyocr = TRUE
          /\ results \in LineWithExtra /\ tesseract_text = <<>>
    /\ detection = NotDetected
    /\ MaskIdle /\ ExtractIdle /\ PipelineIdle /\ ColorIdle /\ HostIdle /\ UnitIdle

DetectWithAllLocations ==
    /\ pc = "start"
    /\ detection' = detect_aadhaar_number_with_all_locations(
                        image_ok, use_easyocr, results, tesseract_text)
    /\ pc' = "done"
    /\ UNCHANGED <<maskVars, extractVars, imageVars, pipelineVars, colorVars, hostVars, unitVars>>

-----------------------------------------------------------------------------
(* AadhaarImageMasker: locating and replacing text                         *)
(* (with the second step of the resolver specification: the masker's own   *)
(* search for the identifier)                                              *)
(* The image buffer is the sequence of regions drawn on it, each           *)
(* [box, filled, text], and the overlay text (None when no banner).        *)

ImageWidth == 400
ImageHeight == 200

Max2(a, b) == IF a > b THEN a ELSE b
Min2(a, b) == IF a < b THEN a ELSE b

\* conf < 0.5 is skipped by the masker (image_masker.py lines 68, 90)
MaskerSkips(frag) == frag.conf < ConfThreshold

\* some target_digits[i:i+8], i in range(len(target_digits) - 7), occurs in detected_digits
PartialMatch(target_digits, detected_digits) ==
    \E i \in 0..(Len(target_digits) - 8) :
        IsSubstring(Slice(target_digits, i, i + 8), detected_digits)

\* first loop of find_text_location_in_image
RECURSIVE FirstFullMatch(_, _, _)
FirstFullMatch(raw, i, target_digits) ==
    IF i > Len(raw) THEN None
    ELSE IF /\ ~MaskerSkips(raw[i])
            /\ Len(DigitsOnly(raw[i].text)) >= 12
            /\ IsSubstring(target_digits, DigitsOnly(raw[i].text))
    THEN BoxOf(raw[i].bbox)
    ELSE FirstFullMatch(raw, i + 1, target_digits)

\* second loop of find_text_location_in_image
RECURSIVE FirstPartialMatch(_, _, _)
FirstPartialMatch(raw, i, target_digits) ==
    IF i > Len(raw) THEN None
    ELSE IF /\ ~MaskerSkips(raw[i])
            /\ Len(DigitsOnly(raw[i].text)) >= 8
            /\ PartialMatch(target_digits, DigitsOnly(raw[i].text))
    THEN BoxOf(raw[i].bbox)
    ELSE FirstPartialMatch(raw, i + 1, target_digits)

\* find_text_location_in_image: the box (x, y, width, height) or None
find_text_location_in_image(ok, raw, target_text) ==
    LET target_digits == DigitsOnly(target_text)
        full == FirstFullMatch(raw, 1, target_digits)
    IN  IF ~ok THEN None
        ELSE IF full # None THEN full
        ELSE FirstPartialMatch(raw, 1, target_digits)

\* the masker searches the same image for the identifier the detector returned
\* (replace_text_in_image line 138: bbox = self.find_text_location_in_image(...))
FindTextLocation ==
    /\ pc = "done" /\ detection.found
    /\ located_box' = find_text_location_in_image(image_ok, results, detection.aadhaar_number)
    /\ pc' = "located"
    /\ UNCHANGED <<maskVars, extractVars, imageVars, detection, pipelineVars, colorVars,
                   hostVars, padVars, bgVars, fontVars, renderVars, multiVars>>

NextResolve == DetectWithAllLocations \/ FindTextLocation

SpecResolve == InitResolve /\ [][NextResolve]_vars

PaddedBoxKeepsSize(bbox) ==
    LET padding == Max2(5, bbox[4] \div 10)
        x == Max2(0, bbox[1] - padding)
        y == Max2(0, bbox[2] - padding)
    IN  <<x, y, Min2(ImageWidth - x, bbox[3]), Min2(ImageHeight - y, bbox[4])>>

\* padding = max(5, height // 10) and the clamping of lines 634-638
PaddedBox(bbox) ==
    LET padding == Max2(5, bbox[4] \div 10)
        x == Max2(0, bbox[1] - padding)
        y == Max2(0, bbox[2] - padding)
    IN  <<x, y, Min2(ImageWidth - x, bbox[3] + 2 * padding),
               Min2(ImageHeight - y, bbox[4] + 2 * padding)>>

\* _draw_blended_rectangle: the rectangle filled, after its own clamping;
\* nothing is filled when width <= 0 or height <= 0
FilledBox(box) ==
    LET x == Max2(0, Min2(box[1], ImageWidth - 1))
        y == Max2(0, Min2(box[2], ImageHeight - 1))
    IN  <<x, y, Min2(box[3], ImageWidth - x), Min2(box[4], ImageHeight - y)>>

\* one location: pad, fill with the background colour, draw masked_text
RenderLocation(regions, bbox, masked_text) ==
    LET filled == FilledBox(PaddedBox(bbox))
    IN  Append(regions, [box    |-> filled,
                         filled |-> filled[3] > 0 /\ filled[4] > 0,
                         text   |-> masked_text])

\* for i, bbox in enumerate(bboxes)
RECURSIVE RenderAll(_, _, _)
RenderAll(regions, boxes, masked_text) ==
    IF boxes = <<>> THEN regions
    ELSE RenderAll(RenderLocation(regions, Head(boxes), masked_text), Tail(boxes), masked_text)

\* cv2.imwrite(output_path, image) followed by return True: the file is
\* written when imwrite succeeds; imwrite returning False is not looked at;
\* an exception of imwrite is caught and False is returned
SaveAndReturn(regions, overlay, write) ==
    CASE write = "ok"    -> [success |-> TRUE,
                             file |-> [written |-> TRUE, regions |-> regions, overlay |-> overlay]]
      [] write = "false" -> [success |-> TRUE, file |-> NoFile]
      [] write = "raise" -> [success |-> FALSE, file |-> NoFile]

RenderFailed == [success |-> FALSE, file |-> NoFile]

\* replace_text_at_all_locations; fault is the number of the location whose
\* iteration raises (0 when none does): the loop of lines 629-662 has no
\* handler of its own, so the exception reaches the except of line 670
replace_text_at_all_locations(ok, masked_text, boxes, fault, write) ==
    IF ~ok THEN RenderFailed
    ELSE IF fault \in 1..Len(boxes) THEN RenderFailed
    ELSE SaveAndReturn(RenderAll(<<>>, boxes, masked_text), None, write)

\* replace_text_at_location
replace_text_at_location(ok, masked_text, bbox, write) ==
    IF ~ok THEN RenderFailed
    ELSE SaveAndReturn(RenderLocation(<<>>, bbox, masked_text), None, write)

\* text = f"Masked: {masked_text}"
OverlayText(masked_text) == <<"M", "a", "s", "k", "e", "d", ":", " ">> \o masked_text

\* _add_overlay_text
add_overlay_text(masked_text, write) == SaveAndReturn(<<>>, OverlayText(masked_text), write)

\* replace_text_in_image
replace_text_in_image(ok, raw, original_text, masked_text, write) ==
    LET bbox == find_text_location_in_image(ok, raw, original_text)
    IN  IF ~ok THEN RenderFailed
        ELSE IF bbox = None THEN add_overlay_text(masked_text, write)
        ELSE SaveAndReturn(RenderLocation(<<>>, bbox, masked_text), None, write)

-----------------------------------------------------------------------------
(* _get_text_color on its own.  The float expression                        *)
(* 0.299 * r + 0.587 * g + 0.114 * b > 128 is evaluated in thousandths:     *)
(* for all 256^3 triples of 8-bit components the float comparison and the   *)
(* exact one agree.                                                         *)

Black == <<0, 0, 0>>
White == <<255, 255, 255>>

\* the components read in the order r, g, b
LuminanceRGB(color) == 299 * color[1] + 587 * color[2] + 114 * color[3]

\* b, g, r = background_color; luminance = 0.299 * r + 0.587 * g + 0.114 * b
Luminance(color) ==
    LET b == color[1]
        g == color[2]
        r == color[3]
    IN  299 * r + 587 * g + 114 * b

\* _get_text_color
get_text_color(color) == IF Luminance(color) > 128000 THEN Black ELSE White

\* component values drawn for the background: the extremes, the values of
\* the contrast requirement (250, 10), the fallback grey 240 and the
\* neighbourhood of the threshold
ColorLevels == {0, 10, 100, 127, 128, 129, 150, 240, 250, 255}

BackgroundColors == {<<b, g, r>> : b \in ColorLevels, g \in ColorLevels, r \in ColorLevels}

InitTextColor ==
    /\ pc = "start"
    /\ background_color \in BackgroundColors
    /\ text_color = <<>>
    /\ MaskIdle /\ ExtractIdle /\ ResolveIdle /\ PipelineIdle /\ HostIdle /\ UnitIdle

GetTextColor ==
    /\ pc = "start"
    /\ text_color' = get_text_color(background_color)
    /\ pc' = "done"
    /\ UNCHANGED <<background_color, maskVars, extractVars, imageVars, detection,
                   pipelineVars, hostVars, unitVars>>

NextTextColor == GetTextColor

SpecTextColor == InitTextColor /\ [][NextTextColor]_vars

-----------------------------------------------------------------------------
(* The pipelines: process_single_image (src/api.py) and main (src/main.py) *)

MaxPipelineFragments == 3

PartialText == G1234 \o G5678

PipelinePool ==
    {Fragment(G1234, 100, 0, 90), Fragment(G5678, 160, 0, 90), Fragment(G9012, 220, 0, 90),
     Fragment(G9012, 160, 50, 90), Fragment(PartialText, 100, 0, 90),
     Fragment(FullText, 100, 0, 90), Fragment(FullText, 100, 50, 90)}

PipelineLists == ListsOver(PipelinePool, MaxPipelineFragments)

WriteOutcomes == {"ok", "false", "raise"}

\* what the masker's own reader returns for the unprocessed image
RawReadings(res) == {res, <<>>}

\* the location during whose iteration cv2.getTextSize or cv2.putText raises
\* (image_masker.py lines 650, 658), 0 for a loop that raises nowhere
LocationFaults(boxes) == 0..Len(boxes)

InitPipeline ==
    /\ pc = "start"
    /\ mode \in {"api", "cli", "cli_no_output"}
    /\ stage = "Detecting"
    /\ \/ /\ image_ok = TRUE /\ use_easyocr = TRUE
          /\ results \in PipelineLists /\ tesseract_text = <<>>
       \/ /\ image_ok = TRUE /\ use_easyocr = FALSE /\ mode # "api"
          /\ results = <<>> /\ tesseract_text \in TesseractTexts
       \/ /\ image_ok = FALSE /\ use_easyocr = TRUE
          /\ results \in {<<>>} /\ tesseract_text = <<>>
    /\ detection = NotDetected
    /\ bboxes = <<>> /\ masked_number = None
    /\ output_file = NoFile /\ response = NoResponse /\ render_env = NoFault
    /\ MaskIdle /\ ExtractIdle /\ ColorIdle /\ HostIdle /\ UnitIdle

\* detect_aadhaar_number_with_location: only the first location is returned
FirstLocationOnly(locations) == IF locations # <<>> THEN <<locations[1]>> ELSE <<>>

\* as Detect, but the missing identifier does not end the run
DetectNoAbort ==
    /\ stage = "Detecting"
    /\ detection' = detect_aadhaar_number_with_all_locations(
                         image_ok, use_easyocr, results, tesseract_text)
    /\ stage' = "Formatting"
    /\ bboxes' = IF mode = "api" THEN detection'.all_locations
                 ELSE FirstLocationOnly(detection'.all_locations)
    /\ response' = response
    /\ UNCHANGED <<pc, maskVars, extractVars, imageVars, colorVars, hostVars, unitVars,
                   mode, masked_number, output_file, render_env>>

\* api.py 175-180, main.py 46-49 and 82-88
Detect ==
    /\ stage = "Detecting"
    /\ LET result == detect_aadhaar_number_with_all_locations(
                         image_ok, use_easyocr, results, tesseract_text)
       IN  /\ detection' = result
           /\ IF result.found
              THEN /\ stage' = "Formatting"
                   /\ bboxes' = IF mode = "api" THEN result.all_locations
                                ELSE FirstLocationOnly(result.all_locations)
                   /\ response' = response
              ELSE /\ stage' = "Failed"
                   /\ bboxes' = bboxes
                   /\ response' = [status |-> IF mode = "api" THEN 422 ELSE 1,
                                   success |-> FALSE, locations_found |-> 0]
    /\ UNCHANGED <<pc, maskVars, extractVars, imageVars, colorVars, hostVars, unitVars,
                   mode, masked_number, output_file, render_env>>

\* api.py 183, main.py 60: masker.mask_aadhaar_number(aadhaar_number);
\* main.py 64 and 81: without --output the CLI returns 0 here
Format ==
    /\ stage = "Formatting"
    /\ LET masked == mask_aadhaar_number(detection.aadhaar_number)
       IN  IF masked.raised
           THEN /\ stage' = "Failed"
                /\ masked_number' = masked_number
                /\ response' = [status |-> 500, success |-> FALSE, locations_found |-> 0]
           ELSE /\ masked_number' = masked.value
                /\ IF mode = "cli_no_output"
                   THEN /\ stage' = "Done"
                        /\ response' = [status |-> 0, success |-> FALSE, locations_found |-> 0]
                   ELSE /\ stage' = "Rendering"
                        /\ response' = response
    /\ UNCHANGED <<pc, maskVars, extractVars, imageVars, colorVars, hostVars, unitVars,
                   detection, mode, bboxes, output_file, render_env>>

\* api.py 188-216
RenderApi ==
    /\ stage = "Rendering" /\ mode = "api"
    /\ \E write \in WriteOutcomes : \E raw \in RawReadings(results) :
      \E fault \in LocationFaults(bboxes) :
         LET done == IF bboxes # <<>>
                     THEN replace_text_at_all_locations(image_ok, masked_number, bboxes,
                                                        fault, write)
                     ELSE replace_text_in_image(image_ok, raw, detection.aadhaar_number,
                                                masked_number, write)
         IN  /\ output_file' = done.file
             /\ render_env' = [fault |-> fault, write |-> write]
             /\ IF done.success
                THEN /\ stage' = "Done"
                     /\ response' = [status |-> 200, success |-> TRUE,
                                     locations_found |-> Len(bboxes)]
                ELSE /\ stage' = "Failed"
                     /\ response' = [status |-> 500, success |-> FALSE, locations_found |-> 0]
    /\ UNCHANGED <<pc, maskVars, extractVars, imageVars, colorVars, hostVars, unitVars,
                   detection, mode, bboxes, masked_number>>

\* main.py 64-81
RenderCli ==
    /\ stage = "Rendering" /\ mode = "cli"
    /\ \E write \in WriteOutcomes : \E raw \in RawReadings(results) :
         LET done == IF bboxes # <<>>
                     THEN replace_text_at_location(image_ok, masked_number, bboxes[1], write)
                     ELSE replace_text_in_image(image_ok, raw, detection.aadhaar_number,
                                                masked_number, write)
         IN  /\ output_file' = done.file
             /\ render_env' = [fault |-> 0, write |-> write]
             /\ stage' = "Done"
             /\ response' = [status |-> 0, success |-> done.success, locations_found |-> 0]
    /\ UNCHANGED <<pc, maskVars, extractVars, imageVars, colorVars, hostVars, unitVars,
                   detection, mode, bboxes, masked_number>>

NextPipeline == Detect \/ Format \/ RenderApi \/ RenderCli

SpecPipeline == InitPipeline /\ [][NextPipeline]_vars

-----------------------------------------------------------------------------
(* The API host: process_image (src/api.py 1216-1313) for several requests *)
(* on one event loop, sharing the detector and the masker of lines 118-120. *)
(* A coroutine keeps the loop until it reaches an await; the calls of       *)
(* save_uploaded_file and process_single_image are plain calls.             *)

MaxRequests == 2

Requests == 1..MaxRequests

\* the file names the clients send; every request may send the same one
Filenames == {"card.jpg"}

\* f"{file_id}_{file.filename}" with file_id = uuid.uuid4(), one per request
UploadPath(r, filename) == <<r, filename>>

\* the OCR call run in an executor and awaited instead of called
SuspendedInOcr(at) == at \in {"await_auth", "await_store", "await_log", "ocr"}

\* the positions where the coroutine is suspended in an await:
\* Depends(authenticate_api_key), secure_storage.store_processed_card, log_api_request
Suspended(at) == at \in {"await_auth", "await_store", "await_log"}

\* request r may take its next step: it holds the loop, or the loop is idle
\* and r waits in an await
Runs(r) == loop = r \/ (loop = 0 /\ Suspended(req[r].at))

\* r moves to position next; the loop is released when r awaits or returns
Goto(r, next, fields) ==
    /\ req' = [req EXCEPT ![r] = [fields EXCEPT !.at = next]]
    /\ loop' = IF Suspended(next) \/ next = "responded" THEN 0 ELSE r

NewRequest(store, filename) ==
    [at |-> "await_auth", store |-> store, filename |-> filename, status |-> 0,
     located |-> FALSE, image |-> 0, output |-> 0]

InitHost ==
    /\ pc = "start"
    /\ loop = 0
    /\ req \in [Requests -> {NewRequest(store, filename) :
                                 store \in BOOLEAN, filename \in Filenames}]
    /\ ocr_users = {}
    /\ uploads = <<>>
    /\ MaskIdle /\ ExtractIdle /\ ResolveIdle /\ PipelineIdle /\ ColorIdle /\ UnitIdle

\* consumer_data: dict = Depends(authenticate_api_key): 401 when the key is refused
Authenticate(r) ==
    /\ Runs(r) /\ req[r].at = "await_auth"
    /\ \E accepted \in BOOLEAN :
          IF accepted THEN Goto(r, "validate", req[r])
          ELSE Goto(r, "responded", [req[r] EXCEPT !.status = 401])
    /\ UNCHANGED <<ocr_users, uploads>>

\* lines 1230-1236: the content type must start with image/
Validate(r) ==
    /\ Runs(r) /\ req[r].at = "validate"
    /\ \E is_image \in BOOLEAN :
          IF is_image THEN Goto(r, "save", req[r])
          ELSE Goto(r, "await_log", [req[r] EXCEPT !.status = 400])
    /\ UNCHANGED <<ocr_users, uploads>>

\* lines 1239-1245: save_uploaded_file(file, upload_path)
SaveUpload(r) ==
    /\ Runs(r) /\ req[r].at = "save"
    /\ LET path == UploadPath(r, req[r].filename)
       IN  uploads' = [q \in DOMAIN uploads \cup {path} |->
                          IF q = path THEN r ELSE uploads[q]]
    /\ Goto(r, "detect", req[r])
    /\ UNCHANGED ocr_users

\* api.py 175, ocr_detector.py 203: detector.ocr_reader.readtext is entered
BeginDetect(r) ==
    /\ Runs(r) /\ req[r].at = "detect"
    /\ ocr_users' = ocr_users \cup {r}
    /\ Goto(r, "ocr", req[r])
    /\ UNCHANGED uploads

\* the detector returns: None (422), or a number with or without locations
EndDetect(r) ==
    /\ Runs(r) /\ req[r].at = "ocr"
    /\ ocr_users' = ocr_users \ {r}
    /\ \E found \in BOOLEAN : \E located \in BOOLEAN :
          IF found THEN Goto(r, "load", [req[r] EXCEPT !.located = located])
          ELSE Goto(r, "await_log", [req[r] EXCEPT !.status = 422])
    /\ UNCHANGED uploads

\* image = cv2.imread(image_path) in replace_text_at_all_locations (line 620)
\* or replace_text_in_image (line 133), whose find_text_location_in_image
\* then runs masker.ocr_reader.readtext (line 61)
LoadImage(r) ==
    /\ Runs(r) /\ req[r].at = "load"
    /\ LET path == UploadPath(r, req[r].filename)
           image == IF path \in DOMAIN uploads THEN uploads[path] ELSE 0
       IN  IF req[r].located
           THEN /\ Goto(r, "render", [req[r] EXCEPT !.image = image])
                /\ ocr_users' = ocr_users
           ELSE /\ Goto(r, "locate", [req[r] EXCEPT !.image = image])
                /\ ocr_users' = ocr_users \cup {r}
    /\ UNCHANGED uploads

\* masker.ocr_reader.readtext returns
EndLocate(r) ==
    /\ Runs(r) /\ req[r].at = "locate"
    /\ ocr_users' = ocr_users \ {r}
    /\ Goto(r, "render", req[r])
    /\ UNCHANGED uploads

\* the regions are drawn on image and cv2.imwrite(output_path, image) runs;
\* api.py 200-216: 500 when the masker returns False
Render(r) ==
    /\ Runs(r) /\ req[r].at = "render"
    /\ \E success \in BOOLEAN :
          IF success
          THEN Goto(r, IF req[r].store THEN "await_store" ELSE "await_log",
                    [req[r] EXCEPT !.output = req[r].image, !.status = 200])
          ELSE Goto(r, "await_log", [req[r] EXCEPT !.status = 500])
    /\ UNCHANGED <<ocr_users, uploads>>

\* lines 1255-1282: await secure_storage.store_processed_card(...)
Store(r) ==
    /\ Runs(r) /\ req[r].at = "await_store"
    /\ Goto(r, "await_log", req[r])
    /\ UNCHANGED <<ocr_users, uploads>>

\* await log_api_request(...), then the finally of lines 1310-1313 unlinks
\* the upload and the response is returned
LogAndRespond(r) ==
    /\ Runs(r) /\ req[r].at = "await_log"
    /\ LET path == UploadPath(r, req[r].filename)
       IN  uploads' = [q \in DOMAIN uploads \ {path} |-> uploads[q]]
    /\ Goto(r, "responded", req[r])
    /\ UNCHANGED ocr_users

HostStep(r) ==
    \/ Authenticate(r) \/ Validate(r) \/ SaveUpload(r)
    \/ BeginDetect(r) \/ EndDetect(r) \/ LoadImage(r) \/ EndLocate(r) \/ Render(r)
    \/ Store(r) \/ LogAndRespond(r)

NextHost ==
    /\ \E r \in Requests : HostStep(r)
    /\ UNCHANGED <<pc, maskVars, extractVars, imageVars, detection, pipelineVars, colorVars, unitVars>>

SpecHost == InitHost /\ [][NextHost]_vars

------------------------------------------------------------------------------
(* The geometry of one rendered location on its own: the padding of        *)
(* replace_text_at_all_locations (lines 633-638; the same statements are   *)
(* lines 564-569 and 150-155) followed by _draw_blended_rectangle.         *)

\* boxes (x, y, width, height) lying inside the image, some of them closer
\* to a border than the padding, some reaching the border, some empty
LocationXs == {0, 2, 5, 100, ImageWidth - 52, ImageWidth - 50}
LocationYs == {0, 3, 9, 50, ImageHeight - 22, ImageHeight - 20}
LocationWidths == {0, 1, 50, ImageWidth}
LocationHeights == {0, 1, 20, 100, ImageHeight}

InsideImage(b) ==
    /\ b[1] >= 0 /\ b[2] >= 0 /\ b[3] >= 0 /\ b[4] >= 0
    /\ b[1] + b[3] <= ImageWidth /\ b[2] + b[4] <= ImageHeight

LocationBoxes ==
    {b \in LocationXs \X LocationYs \X LocationWidths \X LocationHeights : InsideImage(b)}

InitPad ==
    /\ pc = "start"
    /\ location_box \in LocationBoxes
    /\ padded_box = <<>> /\ filled_box = <<>>
    /\ MaskIdle /\ ExtractIdle /\ ResolveIdle /\ PipelineIdle /\ ColorIdle /\ HostIdle
    /\ LocateIdle /\ BackgroundIdle /\ FontIdle /\ RenderIdle /\ MultiIdle

\* lines 633-638: x, y, width, height = bbox; padding; the four clamped values
PadLocation ==
    /\ pc = "start"
    /\ padded_box' = PaddedBox(location_box)
    /\ pc' = "padded"
    /\ UNCHANGED <<location_box, filled_box, maskVars, extractVars, imageVars, detection,
                   pipelineVars, colorVars, hostVars, locateVars, bgVars, fontVars,
                   renderVars, multiVars>>

\* line 644: self._draw_blended_rectangle(image, x, y, width, height, background_color)
DrawBlendedRectangle ==
    /\ pc = "padded"
    /\ filled_box' = FilledBox(padded_box)
    /\ pc' = "drawn"
    /\ UNCHANGED <<location_box, padded_box, maskVars, extractVars, imageVars, detection,
                   pipelineVars, colorVars, hostVars, locateVars, bgVars, fontVars,
                   renderVars, multiVars>>

NextPad == PadLocation \/ DrawBlendedRectangle

SpecPad == InitPad /\ [][NextPad]_vars

------------------------------------------------------------------------------
(* _get_background_color on its own (image_masker.py lines 229-366).  The  *)
(* image is ImageWidth x ImageHeight pixels of one colour, so a median or  *)
(* mean of any non-empty set of its pixels is that colour; what is         *)
(* modelled pixel by pixel is which samples each strategy finds.           *)

LightGray == <<240, 240, 240>>

\* 0 <= sample_x < w and 0 <= sample_y < h
InImage(px, py) == 0 <= px /\ px < ImageWidth /\ 0 <= py /\ py < ImageHeight

\* padding = max(15, min(width, height) // 2)
SamplePadding(b) == Max2(15, Min2(b[3], b[4]) \div 2)

\* range(max(1, length // 10))
SampleSteps(length) == 0..(Max2(1, length \div 10) - 1)

\* i * length // max(1, length // 10)
SampleOffset(i, length) == (i * length) \div Max2(1, length \div 10)

\* lines 253-283: the sample points of the four edges that lie in the image,
\* each edge behind its guard
PerimeterPoints(b) ==
    LET x == b[1]
        y == b[2]
        width == b[3]
        height == b[4]
        padding == SamplePadding(b)
        top == IF y > padding
               THEN {<<x + SampleOffset(i, width), y - padding \div 2>> : i \in SampleSteps(width)}
               ELSE {}
        bottom == IF y + height + padding < ImageHeight
                  THEN {<<x + SampleOffset(i, width), y + height + padding \div 2>> :
                            i \in SampleSteps(width)}
                  ELSE {}
        left == IF x > padding
                THEN {<<x - padding \div 2, y + SampleOffset(i, height)>> : i \in SampleSteps(height)}
                ELSE {}
        right == IF x + width + padding < ImageWidth
                 THEN {<<x + width + padding \div 2, y + SampleOffset(i, height)>> :
                           i \in SampleSteps(height)}
                 ELSE {}
    IN  {pt \in top \cup bottom \cup left \cup right : InImage(pt[1], pt[2])}

\* the number of indices a slice a:b selects on an axis of n pixels (0 <= a)
SliceLen(a, b, n) == Max2(0, Min2(b, n) - Min2(a, n))

\* lines 311-333: the bands whose guard holds and whose area.size > 0
AvailableBands(b) ==
    LET x == b[1]
        y == b[2]
        width == b[3]
        height == b[4]
        padding == SamplePadding(b)
        cols == SliceLen(x, x + width, ImageWidth)
        rows == SliceLen(y, y + height, ImageHeight)
    IN  {band \in {"above", "below", "left", "right"} :
            \/ /\ band = "above" /\ y > padding
               /\ SliceLen(Max2(0, y - padding), y, ImageHeight) * cols > 0
            \/ /\ band = "below" /\ y + height + padding < ImageHeight
               /\ SliceLen(y + height, Min2(ImageHeight, y + height + padding), ImageHeight)
                      * cols > 0
            \/ /\ band = "left" /\ x > padding
               /\ rows * SliceLen(Max2(0, x - padding), x, ImageWidth) > 0
            \/ /\ band = "right" /\ x + width + padding < ImageWidth
               /\ rows * SliceLen(x + width, Min2(ImageWidth, x + width + padding), ImageWidth)
                      > 0}

\* lines 344-353: the 8 neighbours of (x, y) that lie in the image
BorderPixels(b) ==
    {pt \in {<<b[1] + dx, b[2] + dy>> : dx \in -1..1, dy \in -1..1} :
        pt # <<b[1], b[2]>> /\ InImage(pt[1], pt[2])}

get_background_color_without_bands(b, color) ==
    IF PerimeterPoints(b) # {} THEN [strategy |-> "perimeter", color |-> color]
    ELSE IF BorderPixels(b) # {} THEN [strategy |-> "neighbours", color |-> color]
    ELSE [strategy |-> "constant", color |-> LightGray]

\* the four return statements of lines 306, 339, 358 and 361
get_background_color(b, color) ==
    IF PerimeterPoints(b) # {} THEN [strategy |-> "perimeter", color |-> color]
    ELSE IF AvailableBands(b) # {} THEN [strategy |-> "bands", color |-> color]
    ELSE IF BorderPixels(b) # {} THEN [strategy |-> "neighbours", color |-> color]
    ELSE [strategy |-> "constant", color |-> LightGray]

\* boxes in the image, covering it, across its right and bottom borders and
\* beyond them (OCR boxes are measured on the preprocessed image)
SampleXs == {0, 10, 100, ImageWidth - 1, ImageWidth, ImageWidth + 7, ImageWidth + 14,
             ImageWidth + 20}
SampleYs == {0, 10, 50, ImageHeight - 1, ImageHeight, ImageHeight + 7, ImageHeight + 14,
             ImageHeight + 20}
SampleBoxes == SampleXs \X SampleYs \X {0, 50, ImageWidth} \X {0, 20, ImageHeight}
ImageColors == {<<0, 0, 0>>, <<255, 255, 255>>, <<240, 240, 240>>, <<12, 130, 255>>}

InitBackground ==
    /\ pc = "start"
    /\ bg_box \in SampleBoxes
    /\ image_color \in ImageColors
    /\ bg_strategy = "none"
    /\ background_color = <<0, 0, 0>> /\ text_color = <<>>
    /\ MaskIdle /\ ExtractIdle /\ ResolveIdle /\ PipelineIdle /\ HostIdle
    /\ LocateIdle /\ PadIdle /\ FontIdle /\ RenderIdle /\ MultiIdle

\* background_color = self._get_background_color(image, x, y, width, height)
GetBackgroundColor ==
    /\ pc = "start"
    /\ LET r == get_background_color(bg_box, image_color)
       IN  bg_strategy' = r.strategy /\ background_color' = r.color
    /\ pc' = "done"
    /\ UNCHANGED <<bg_box, image_color, text_color, maskVars, extractVars, imageVars,
                   detection, pipelineVars, hostVars, locateVars, padVars, fontVars,
                   renderVars, multiVars>>

NextBackground == GetBackgroundColor

SpecBackground == InitBackground /\ [][NextBackground]_vars

------------------------------------------------------------------------------
(* _calculate_font_scale and the placement of the text (image_masker.py    *)
(* lines 368-392 and 646-660).  Scales are in tenths.  cv2.getTextSize is   *)
(* the library's: the text is as wide as its characters' advance times the  *)
(* scale plus the stroke thickness, and as high as the capital height times *)
(* the scale plus the thickness; the metrics are drawn by Init.             *)

\* for scale in [2.0, 1.5, 1.2, 1.0, 0.8, 0.6, 0.5, 0.4]
FontScales == <<20, 15, 12, 10, 8, 6, 5, 4>>
SmallestScale == 4

FontScalesAscending == <<4, 5, 6, 8, 10, 12, 15, 20>>

\* thickness = max(1, int(scale * 2))
Thickness(scale) == Max2(1, (scale * 2) \div 10)

\* cv2.getTextSize(text, font, scale, thickness)[0] for metrics (advance, capital height)
TextSize(text, metrics, scale) ==
    <<(Len(text) * metrics[1] * scale) \div 10 + Thickness(scale),
      (metrics[2] * scale) \div 10 + Thickness(scale)>>

\* size[0] <= target_width * 0.9 and size[1] <= target_height * 0.8
FitsBox(size, target_width, target_height) ==
    /\ 10 * size[1] <= 9 * target_width
    /\ 10 * size[2] <= 8 * target_height

\* the loop of lines 383-389 over the scales in the order given
RECURSIVE FirstFitting(_, _, _, _, _)
FirstFitting(scales, text, metrics, target_width, target_height) ==
    IF scales = <<>> THEN SmallestScale
    ELSE IF FitsBox(TextSize(text, metrics, Head(scales)), target_width, target_height)
         THEN Head(scales)
         ELSE FirstFitting(Tail(scales), text, metrics, target_width, target_height)

calculate_font_scale_ascending(text, metrics, target_width, target_height) ==
    FirstFitting(FontScalesAscending, text, metrics, target_width, target_height)

calculate_font_scale(text, metrics, target_width, target_height) ==
    FirstFitting(FontScales, text, metrics, target_width, target_height)

\* text_x = x + (width - text_size[0]) // 2, text_y = y + (height + text_size[1]) // 2
TextOrigin(b, size) == <<b[1] + (b[3] - size[1]) \div 2, b[2] + (b[4] + size[2]) \div 2>>

\* the text drawn on every location: the masked identifier
MaskedText == mask_aadhaar_number(FullText).value

PaddedBoxes == {<<0, 0>>, <<100, 50>>} \X {0, 40, 100, 178, 250, ImageWidth}
                   \X {0, 10, 30, 60, ImageHeight}
FontMetrics == {<<20, 22>>, <<17, 21>>, <<10, 10>>, <<1, 1>>}

InitFont ==
    /\ pc = "start"
    /\ \E b \in PaddedBoxes : font_box = <<b[1][1], b[1][2], b[2], b[3]>>
    /\ text_metrics \in FontMetrics
    /\ font_scale = 0 /\ text_origin = <<>>
    /\ MaskIdle /\ ExtractIdle /\ ResolveIdle /\ PipelineIdle /\ ColorIdle /\ HostIdle
    /\ LocateIdle /\ PadIdle /\ BackgroundIdle /\ RenderIdle /\ MultiIdle

\* font_scale = self._calculate_font_scale(masked_text, width, height)
CalculateFontScale ==
    /\ pc = "start"
    /\ font_scale' = calculate_font_scale(MaskedText, text_metrics, font_box[3], font_box[4])
    /\ pc' = "scaled"
    /\ UNCHANGED <<font_box, text_metrics, text_origin, maskVars, extractVars, imageVars,
                   detection, pipelineVars, colorVars, hostVars, locateVars, padVars, bgVars,
                   renderVars, multiVars>>

\* lines 651-654: the size of the text at font_scale and its centred origin
PlaceText ==
    /\ pc = "scaled"
    /\ text_origin' = TextOrigin(font_box, TextSize(MaskedText, text_metrics, font_scale))
    /\ pc' = "placed"
    /\ UNCHANGED <<font_box, text_metrics, font_scale, maskVars, extractVars, imageVars,
                   detection, pipelineVars, colorVars, hostVars, locateVars, padVars, bgVars,
                   renderVars, multiVars>>

NextFont == CalculateFontScale \/ PlaceText

SpecFont == InitFont /\ [][NextFont]_vars

------------------------------------------------------------------------------
(* The render entry points step by step: replace_text_at_all_locations     *)
(* (lines 603-672), replace_text_at_location (540-601) and                 *)
(* replace_text_in_image (118-184) with _add_overlay_text (186-227).       *)
(* render_trace lists the steps run; render_env is what the library does:  *)
(* the location whose drawing raises (0: none) and the outcome of imwrite. *)

renderFrame == <<maskVars, extractVars, imageVars, detection, pipelineVars, colorVars,
                 hostVars, padVars, bgVars, fontVars, multiVars>>

EntryPoints == {"replace_text_at_all_locations", "replace_text_at_location",
                "replace_text_in_image"}

RenderBoxPool == {<<100, 0, 168, 20>>, <<100, 50, 168, 20>>}
RenderBoxLists == UNION {[1..k -> RenderBoxPool] : k \in 0..2}
RenderReadings ==
    {<<>>, <<Fragment(FullText, 100, 0, 90)>>, <<Fragment(PartialText, 100, 0, 90)>>,
     <<Fragment(G9012, 220, 0, 90)>>}

\* the boxes the entry point draws on
RenderBoxes ==
    IF entry_point = "replace_text_in_image"
    THEN (IF located_box = None THEN <<>> ELSE <<located_box>>)
    ELSE bboxes

IsLocationStep(step) == step = "location"
Processed == Len(SelectSeq(render_trace, IsLocationStep))

InitRender ==
    /\ pc = "start"
    /\ entry_point \in EntryPoints
    /\ image_ok \in BOOLEAN
    /\ use_easyocr = TRUE /\ tesseract_text = <<>> /\ detection = NotDetected
    /\ \/ /\ entry_point = "replace_text_at_all_locations"
          /\ bboxes \in RenderBoxLists /\ results = <<>>
       \/ /\ entry_point = "replace_text_at_location"
          /\ bboxes \in {<<b>> : b \in RenderBoxPool} /\ results = <<>>
       \/ /\ entry_point = "replace_text_in_image"
          /\ bboxes = <<>> /\ results \in RenderReadings
    /\ \E fault \in 0..2, write \in WriteOutcomes :
          /\ fault <= (IF entry_point = "replace_text_in_image" THEN 1 ELSE Len(bboxes))
          /\ render_env = [fault |-> fault, write |-> write]
    /\ mode = "api" /\ stage = "Idle" /\ masked_number = None
    /\ output_file = NoFile /\ response = NoResponse
    /\ render_pos = "load" /\ render_trace = <<>> /\ written = FALSE /\ returned = "none"
    /\ MaskIdle /\ ExtractIdle /\ ColorIdle /\ HostIdle
    /\ LocateIdle /\ PadIdle /\ BackgroundIdle /\ FontIdle /\ MultiIdle

RenderLoadUnchecked ==
    /\ render_pos = "load"
    /\ render_trace' = Append(render_trace, "load")
    /\ render_pos' = IF entry_point = "replace_text_in_image" THEN "locate"
                     ELSE IF bboxes = <<>> THEN "write" ELSE "locations"
    /\ UNCHANGED <<pc, entry_point, written, returned, located_box, renderFrame>>

\* image = cv2.imread(image_path); if image is None: return False
RenderLoad ==
    /\ render_pos = "load"
    /\ render_trace' = Append(render_trace, "load")
    /\ IF ~image_ok
       THEN render_pos' = "returned" /\ returned' = "False"
       ELSE /\ render_pos' = IF entry_point = "replace_text_in_image" THEN "locate"
                             ELSE IF bboxes = <<>> THEN "write" ELSE "locations"
            /\ UNCHANGED returned
    /\ UNCHANGED <<pc, entry_point, written, located_box, renderFrame>>

\* replace_text_in_image line 138: bbox = self.find_text_location_in_image(...);
\* None sends the call to _add_overlay_text
RenderLocate ==
    /\ render_pos = "locate"
    /\ render_trace' = Append(render_trace, "locate")
    /\ located_box' = find_text_location_in_image(image_ok, results, FullText)
    /\ render_pos' = IF located_box' = None THEN "overlay" ELSE "locations"
    /\ UNCHANGED <<pc, entry_point, written, returned, renderFrame>>

\* one location is padded, filled and redrawn; an exception raised while
\* drawing reaches the except of the entry point, which returns False
RenderNextLocation ==
    /\ render_pos = "locations"
    /\ IF render_env.fault = Processed + 1
       THEN /\ render_trace' = Append(render_trace, "raise")
            /\ render_pos' = "returned" /\ returned' = "False"
       ELSE /\ render_trace' = Append(render_trace, "location")
            /\ render_pos' = IF Processed + 1 = Len(RenderBoxes) THEN "write" ELSE "locations"
            /\ UNCHANGED returned
    /\ UNCHANGED <<pc, entry_point, written, located_box, renderFrame>>

\* _add_overlay_text lines 199-217: the banner and the text on it
AddOverlayText ==
    /\ render_pos = "overlay"
    /\ render_trace' = Append(render_trace, "overlay")
    /\ render_pos' = "write"
    /\ UNCHANGED <<pc, entry_point, written, returned, located_box, renderFrame>>

\* cv2.imwrite(output_path, image); return True (lines 664-668, 219-223, 596-599,
\* 178-181): the value imwrite returns is not looked at; its exception is caught
RenderWrite ==
    /\ render_pos = "write"
    /\ render_trace' = Append(render_trace, "write")
    /\ written' = (render_env.write = "ok")
    /\ returned' = IF render_env.write = "raise" THEN "False" ELSE "True"
    /\ render_pos' = "returned"
    /\ UNCHANGED <<pc, entry_point, located_box, renderFrame>>

NextRender == RenderLoad \/ RenderLocate \/ RenderNextLocation \/ AddOverlayText \/ RenderWrite

SpecRender == InitRender /\ [][NextRender]_vars

------------------------------------------------------------------------------
(* detect_with_multiple_methods (ocr_detector.py lines 328-351) followed by *)
(* a later detect_aadhaar_number_with_all_locations on the same detector    *)
(* and image, as in the loop of src/test_images.py.                         *)

InitMulti ==
    /\ pc = "start"
    /\ image_ok \in BOOLEAN
    /\ use_easyocr \in BOOLEAN
    /\ results \in FragmentLists(1)
    /\ tesseract_text \in TesseractTexts
    /\ detection = NotDetected
    /\ flag_before = use_easyocr
    /\ multi_result = None
    /\ MaskIdle /\ ExtractIdle /\ PipelineIdle /\ ColorIdle /\ HostIdle
    /\ LocateIdle /\ PadIdle /\ BackgroundIdle /\ FontIdle /\ RenderIdle

multiFrame == <<maskVars, extractVars, pipelineVars, colorVars, hostVars, locateVars, padVars,
                bgVars, fontVars, renderVars>>

\* lines 339-351: EasyOCR first; Tesseract when EasyOCR returned nothing
DetectWithMultipleMethods ==
    /\ pc = "start"
    /\ LET first == detect_aadhaar_number(image_ok, TRUE, results, tesseract_text)
       IN  IF first # None
           THEN use_easyocr' = TRUE /\ multi_result' = first
           ELSE /\ use_easyocr' = FALSE
                /\ multi_result' = detect_aadhaar_number(image_ok, FALSE, results, tesseract_text)
    /\ pc' = "tried"
    /\ UNCHANGED <<image_ok, results, tesseract_text, detection, flag_before, multiFrame>>

\* a later call on the same detector
DetectAfterMultipleMethods ==
    /\ pc = "tried"
    /\ detection' = detect_aadhaar_number_with_all_locations(
                        image_ok, use_easyocr, results, tesseract_text)
    /\ pc' = "done"
    /\ UNCHANGED <<imageVars, multiVars, multiFrame>>

NextMulti == DetectWithMultipleMethods \/ DetectAfterMultipleMethods

SpecMulti == InitMulti /\ [][NextMulti]_vars

-----------------------------------------------------------------------------
(* Properties of mask_aadhaar_number (checked under SpecMask)              *)

AllDigits(s) == \A i \in 1..Len(s) : IsDigit(s[i])

\* an identifier of exactly 12 digits, written with or without group spaces
ValidIdentifier(s) ==
    \/ Len(s) = 12 /\ AllDigits(s)
    \/ /\ Len(s) = 14 /\ s[5] = " " /\ s[10] = " "
       /\ \A i \in (1..14) \ {5, 10} : IsDigit(s[i])

LastFour(s) == SubSeq(s, Len(s) - 3, Len(s))

C3_RejectsMalformed ==
    (pc = "done" /\ Len(DigitsOnly(aadhaar_input)) # 12) =>
        (mask_result.raised /\ mask_result.value = None)

C29_WitnessMasked ==
    /\ pc = "done" /\ aadhaar_input = MaskedPrefix \o G9012
    /\ mask_result.value = aadhaar_input

-----------------------------------------------------------------------------
(* Properties of extract_aadhaar_number (checked under SpecExtract)        *)

\* the maximal digit runs of a text, in textual order
RECURSIVE RunsFrom(_, _, _)
RunsFrom(s, i, cur) ==
    LET flush == IF cur = <<>> THEN <<>> ELSE <<cur>>
    IN  IF i > Len(s) THEN flush
        ELSE IF IsDigit(s[i]) THEN RunsFrom(s, i + 1, Append(cur, s[i]))
        ELSE flush \o RunsFrom(s, i + 1, <<>>)

DigitRuns(s) == RunsFrom(s, 1, <<>>)

\* the run lengths a pattern accepts for a window of consecutive runs
Shapes(pattern) ==
    CASE pattern = 1 -> {<<12>>}
      [] pattern = 2 -> {<<4, 4, 4>>}
      [] pattern = 3 -> {<<12>>, <<4, 4, 4>>, <<8, 4>>, <<4, 8>>}

WindowAt(runs, k, shape) ==
    /\ k + Len(shape) - 1 <= Len(runs)
    /\ \A n \in 1..Len(shape) : Len(runs[k + n - 1]) = shape[n]

HasWindow(runs, pattern) ==
    \E k \in 1..Len(runs) : \E shape \in Shapes(pattern) : WindowAt(runs, k, shape)

\* digits of the earliest window a pattern accepts
FirstWindow(runs, pattern) ==
    LET k == CHOOSE k \in 1..Len(runs) :
                 /\ \E shape \in Shapes(pattern) : WindowAt(runs, k, shape)
                 /\ \A m \in 1..(k - 1) : \A shape \in Shapes(pattern) : ~WindowAt(runs, m, shape)
        shape == CHOOSE shape \in Shapes(pattern) : WindowAt(runs, k, shape)
    IN  Concat([n \in 1..Len(shape) |-> runs[k + n - 1]])

Canonical(d) == SubSeq(d, 1, 4) \o <<" ">> \o SubSeq(d, 5, 8) \o <<" ">> \o SubSeq(d, 9, 12)

HasCandidate(text) == \E pattern \in 1..3 : HasWindow(DigitRuns(text), pattern)

\* C4: the three patterns are tried in the order 12 contiguous digits, 4-4-4
\* with spaces, 4-4-4 with optional spaces; the result is the first match in
\* textual order of the first pattern that matches anywhere in the text.
C4_PatternOrder ==
    (pc = "done" /\ HasCandidate(ocr_text)) =>
        LET runs == DigitRuns(ocr_text)
            first == CHOOSE pattern \in 1..3 :
                         /\ HasWindow(runs, pattern)
                         /\ \A q \in 1..(pattern - 1) : ~HasWindow(runs, q)
        IN  extracted = Canonical(FirstWindow(runs, first))

\* a 12-digit run that follows a spaced 4-4-4 group in the text is the one returned
C4_Witness ==
    /\ pc = "done"
    /\ ocr_text = Spaced \o <<" ">> \o Run12
    /\ extracted = Canonical(Run12)

IsInfix(d, s) == \E i \in 0..(Len(s) - Len(d)) : SubSeq(s, i + 1, i + Len(d)) = d

\* C5: every identifier returned is 14 characters, three groups of 4 digits
\* separated by single spaces, and its digits occur contiguously and in the
\* same order among the digits of the text.
C5_CanonicalFormat ==
    (pc = "done" /\ extracted # None) =>
        /\ Len(extracted) = 14
        /\ extracted[5] = " " /\ extracted[10] = " "
        /\ \A i \in (1..14) \ {5, 10} : IsDigit(extracted[i])
        /\ IsInfix(DigitsOnly(extracted), DigitsOnly(ocr_text))

\* "12345678 1234" is returned as "1234 5678 1234"
C5_Witness ==
    /\ pc = "done"
    /\ ocr_text = G1234 \o G5678 \o <<" ">> \o G1234
    /\ extracted = G1234 \o <<" ">> \o G5678 \o <<" ">> \o G1234

\* C6: a text that offers no 12-digit candidate (no window of consecutive
\* digit runs of lengths 12, 4-4-4, 8-4 or 4-8) yields None.
C6_NotFoundWithoutCandidate ==
    (pc = "done" /\ ~HasCandidate(ocr_text)) => extracted = None

\* the 16-digit run and the scattered digit groups of the detection test are visited
C6_Witness ==
    /\ pc = "done"
    /\ ocr_text \in {Text16Digits, TextScattered}
    /\ extracted = None

\* C15: extraction is idempotent on its own output: when
\* extract_aadhaar_number(t) returns an identifier i, extract_aadhaar_number(i)
\* returns i.
C15_ExtractIdempotent ==
    (pc = "done" /\ extracted # None) => extract_aadhaar_number(extracted) = extracted

\* a text that is not canonical itself: "111122223333 7" gives "1111 2222 3333"
C15_Witness ==
    /\ pc = "done"
    /\ ocr_text = Run12 \o <<" ", "7">>
    /\ extracted = Canonical(Run12)
    /\ extracted # ocr_text
    /\ extract_aadhaar_number(extracted) = extracted

-----------------------------------------------------------------------------
(* Properties of location resolution (checked under SpecResolve)           *)

PointsOf(frags) == UNION {{frags[i].bbox[p] : p \in 1..Len(frags[i].bbox)} : i \in 1..Len(frags)}

\* the smallest axis-aligned box around all polygons of the fragments
CoveringBox(frags) ==
    LET xs == {pt[1] : pt \in PointsOf(frags)}
        ys == {pt[2] : pt \in PointsOf(frags)}
        x0 == CHOOSE v \in xs : \A w \in xs : v <= w
        x1 == CHOOSE v \in xs : \A w \in xs : v >= w
        y0 == CHOOSE v \in ys : \A w \in ys : v <= w
        y1 == CHOOSE v \in ys : \A w \in ys : v >= w
    IN  <<x0, y0, x1 - x0, y1 - y0>>

YCentre2(frag) ==
    LET ys == {frag.bbox[p][2] : p \in 1..Len(frag.bbox)}
    IN  (CHOOSE v \in ys : \A w \in ys : v <= w) + (CHOOSE v \in ys : \A w \in ys : v >= w)

Permutations3 == {<<1, 2, 3>>, <<1, 3, 2>>, <<2, 1, 3>>, <<2, 3, 1>>, <<3, 1, 2>>, <<3, 2, 1>>}

\* the list is three fragments above the threshold whose digits are the three
\* groups of the identifier, all on one line, none holding all 12 digits
ThreePartsOnOneLine(frags, identifier) ==
    /\ Len(frags) = 3 /\ Len(identifier) = 14
    /\ \A i \in 1..3 : frags[i].conf > 50 /\ Len(DigitsOnly(frags[i].text)) < 12
    /\ \E perm \in Permutations3 :
          /\ DigitsOnly(frags[perm[1]].text) = SubSeq(identifier, 1, 4)
          /\ DigitsOnly(frags[perm[2]].text) = SubSeq(identifier, 6, 9)
          /\ DigitsOnly(frags[perm[3]].text) = SubSeq(identifier, 11, 14)
    /\ \A i, j \in 1..3 : Abs(YCentre2(frags[i]) - YCentre2(frags[j])) < 100

\* C7: three fragments that are the identifier's three groups on one line, in
\* any emission order, resolve to exactly one Location, the union of their boxes.
C7_GroupYieldsOneLocation ==
    (/\ pc = "done" /\ image_ok /\ use_easyocr /\ detection.found
     /\ ThreePartsOnOneLine(results, detection.aadhaar_number))
        => detection.all_locations = <<CoveringBox(results)>>

\* C8: no two Locations of the returned list have top-left corners within
\* 50 pixels of each other in both x and y.
C8_NoNearbyLocations ==
    (pc = "done" /\ detection.found) =>
        \A i, j \in 1..Len(detection.all_locations) :
            i # j => ~(/\ Abs(detection.all_locations[i][1] - detection.all_locations[j][1]) < 50
                       /\ Abs(detection.all_locations[i][2] - detection.all_locations[j][2]) < 50)

\* C10: when Methods 1 and 2 find no Location but the joined text of the
\* fragments above the threshold holds an identifier, that identifier is
\* returned with an empty Location list.
C10_FallbackKeepsIdentifier ==
    (/\ pc = "done" /\ image_ok /\ use_easyocr
     /\ extract_aadhaar_number(AllText(results)) # None
     /\ AllLocations(results, extract_aadhaar_number(AllText(results))) = <<>>)
        => /\ detection.found
           /\ detection.aadhaar_number = extract_aadhaar_number(AllText(results))
           /\ detection.all_locations = <<>>

\* the three groups printed, the last one on another line than the first
C10_Witness ==
    /\ pc = "done" /\ image_ok /\ use_easyocr
    /\ Len(results) = 3
    /\ \A i \in 1..3 : results[i].conf > 50 /\ Len(results[i].text) = 4
    /\ Abs(YCentre2(results[1]) - YCentre2(results[3])) >= 100
    /\ detection.found
    /\ detection.aadhaar_number = FullText
    /\ detection.all_locations = <<>>

\* the boxes around three fragments above the threshold whose digits are the
\* identifier's first, second and third group
GroupBoxes(frags, identifier) ==
    {CoveringBox(<<frags[i], frags[j], frags[k]>>) :
        <<i, j, k>> \in {t \in (1..Len(frags)) \X (1..Len(frags)) \X (1..Len(frags)) :
            /\ \A n \in 1..3 : frags[t[n]].conf > 50
            /\ DigitsOnly(frags[t[1]].text) = SubSeq(identifier, 1, 4)
            /\ DigitsOnly(frags[t[2]].text) = SubSeq(identifier, 6, 9)
            /\ DigitsOnly(frags[t[3]].text) = SubSeq(identifier, 11, 14)}}

\* the fragments above the threshold that hold all 12 digits of the identifier
FullFragmentsOf(frags, identifier) ==
    {i \in 1..Len(frags) :
        /\ frags[i].conf > 50
        /\ IsInfix(DigitsOnly(identifier), DigitsOnly(frags[i].text))}

SingleBoxes(frags, identifier) ==
    {CoveringBox(<<frags[i]>>) : i \in FullFragmentsOf(frags, identifier)}

CornersWithinTolerance(a, b) == Abs(a[1] - b[1]) < 50 /\ Abs(a[2] - b[2]) < 50

\* the first k Locations are of kind first, the others of kind second
SplitsAt(locations, k, first, second) ==
    /\ \A i \in 1..k : locations[i] \in first
    /\ \A i \in (k + 1)..Len(locations) : locations[i] \in second

\* C19 as stated: every single-fragment Location is listed before any group
\* Location, and a single-fragment match whose corner is within the tolerance
\* of a group match is the one that is kept.
C19_SinglesBeforeGroups ==
    (pc = "done" /\ image_ok /\ use_easyocr /\ detection.found) =>
        LET locations == detection.all_locations
            groups == GroupBoxes(results, detection.aadhaar_number)
            singles == SingleBoxes(results, detection.aadhaar_number)
        IN  /\ \E k \in 0..Len(locations) : SplitsAt(locations, k, singles, groups)
            /\ \A s \in singles :
                  (\E i \in 1..Len(locations) :
                       locations[i] \in groups /\ CornersWithinTolerance(s, locations[i]))
                      => \E i \in 1..Len(locations) : locations[i] = s

\* C19 amended: every group Location is listed before any single-fragment
\* Location, and a single-fragment match whose corner is within the tolerance
\* of a listed group Location is dropped: the group Location is the one kept.
C19_GroupsBeforeSingles ==
    (pc = "done" /\ image_ok /\ use_easyocr /\ detection.found) =>
        LET locations == detection.all_locations
            groups == GroupBoxes(results, detection.aadhaar_number)
            singles == SingleBoxes(results, detection.aadhaar_number)
        IN  \E k \in 0..Len(locations) :
              /\ SplitsAt(locations, k, groups, singles)
              /\ \A s \in singles :
                    (\E i \in 1..k : CornersWithinTolerance(s, locations[i]))
                        => \A j \in (k + 1)..Len(locations) : locations[j] # s

\* the three groups on one line and the whole identifier 50 below: the group
\* Location is listed first, the single-fragment Location second
C19_Witness ==
    /\ pc = "done" /\ image_ok /\ use_easyocr /\ detection.found
    /\ Len(results) = 4
    /\ detection.all_locations = <<<<100, 0, 168, 20>>, <<100, 50, 168, 20>>>>
    /\ <<100, 0, 168, 20>> \in GroupBoxes(results, detection.aadhaar_number)
    /\ <<100, 50, 168, 20>> \in SingleBoxes(results, detection.aadhaar_number)

RemoveAt(fs, k) == SubSeq(fs, 1, k - 1) \o SubSeq(fs, k + 1, Len(fs))

\* fragment k is above the threshold, has 4 digits that are none of the
\* identifier's groups, and lies on the line of a fragment that is a group
StrayOnGroupLine(frags, k, identifier) ==
    LET groups == {SubSeq(identifier, 1, 4), SubSeq(identifier, 6, 9), SubSeq(identifier, 11, 14)}
    IN  /\ frags[k].conf > 50
        /\ Len(DigitsOnly(frags[k].text)) = 4
        /\ DigitsOnly(frags[k].text) \notin groups
        /\ \E j \in 1..Len(frags) :
              /\ j # k /\ frags[j].conf > 50
              /\ DigitsOnly(frags[j].text) \in groups
              /\ Abs(YCentre2(frags[j]) - YCentre2(frags[k])) < 100

\* C20: only fragments whose digits equal one of the identifier's three groups
\* are group-member candidates: a 4-digit fragment above the threshold on the
\* same line whose digits are none of the groups does not change the
\* Locations returned (compared with the same list without that fragment).
C20_OnlyExactGroupsAreCandidates ==
    (pc = "done" /\ image_ok /\ use_easyocr /\ detection.found) =>
        \A k \in 1..Len(results) :
            LET without == detect_aadhaar_number_with_all_locations(
                               image_ok, use_easyocr, RemoveAt(results, k), tesseract_text)
            IN  (/\ without.found
                 /\ without.aadhaar_number = detection.aadhaar_number
                 /\ StrayOnGroupLine(results, k, detection.aadhaar_number))
                    => detection.all_locations = without.all_locations

\* C21: for every fragment above the threshold whose digits contain the whole
\* identifier, either its box (min x, min y, max x - min x, max y - min y),
\* with non-negative width and height, is a returned Location, or the corner
\* of that box is within the 50-pixel tolerance of a Location accepted
\* earlier (a group Location or the box of an earlier such fragment).
C21_SingleFragmentBoxOrDuplicate ==
    (pc = "done" /\ image_ok /\ use_easyocr /\ detection.found) =>
        LET locations == detection.all_locations
            identifier == detection.aadhaar_number
            full == FullFragmentsOf(results, identifier)
        IN  \A i \in full :
                LET box == CoveringBox(<<results[i]>>)
                IN  /\ box[3] >= 0 /\ box[4] >= 0
                    /\ \/ \E n \in 1..Len(locations) : locations[n] = box
                       \/ \E n \in 1..Len(locations) :
                             /\ CornersWithinTolerance(box, locations[n])
                             /\ \/ locations[n] \in GroupBoxes(results, identifier)
                                \/ \E j \in full :
                                      j < i /\ locations[n] = CoveringBox(<<results[j]>>)

\* the identifier printed whole twice, 50 apart in x on lines 30 apart: the
\* first box is a Location, the second is dropped as its duplicate; a third
\* print 50 lower is a Location again
C21_Witness ==
    /\ pc = "done" /\ image_ok /\ use_easyocr /\ detection.found
    /\ Cardinality(FullFragmentsOf(results, detection.aadhaar_number)) = 3
    /\ Len(detection.all_locations) = 2
    /\ detection.all_locations[1] = CoveringBox(<<results[1]>>)
    /\ detection.all_locations[2] = CoveringBox(<<results[3]>>)

\* the list without the fragments whose confidence is below 0.5
IsConfident(frag) == frag.conf >= ConfThreshold
ConfidentOnly(res) == SelectSeq(res, IsConfident)

\* C22: fragments whose confidence is below 0.5 never influence resolution: the
\* identifier and Locations the detector returns, and the box the masker
\* finds, are those of the list with every such fragment removed (so adding,
\* removing or changing such fragments changes none of them).
C22_WeakFragmentsIgnored ==
    /\ (pc \in {"done", "located"}) =>
           detection = detect_aadhaar_number_with_all_locations(
                           image_ok, use_easyocr, ConfidentOnly(results), tesseract_text)
    /\ (pc = "located") =>
           located_box = find_text_location_in_image(
                             image_ok, ConfidentOnly(results), detection.aadhaar_number)

C22_Witness ==
    /\ pc = "located" /\ image_ok /\ use_easyocr /\ located_box # None
    /\ \E i \in 1..Len(results) :
           /\ results[i].conf < ConfThreshold
           /\ ContainsFullNumber([results[i] EXCEPT !.conf = 90], DigitsOnly(detection.aadhaar_number))
           /\ located_box # BoxOf(results[i].bbox)
           /\ \A n \in 1..Len(detection.all_locations) :
                  detection.all_locations[n] # BoxOf(results[i].bbox)

-----------------------------------------------------------------------------
(* Properties of the pipelines (checked under SpecPipeline)                *)

\* the region was filled and redrawn with the text and contains the location
Redacts(region, location, text) ==
    /\ region.filled /\ region.text = text
    /\ region.box[1] <= location[1] /\ region.box[2] <= location[2]
    /\ region.box[1] + region.box[3] >= location[1] + location[3]
    /\ region.box[2] + region.box[4] >= location[2] + location[4]

\* C1: when a pipeline (API or CLI) completes successfully, every Location the
\* resolver returned is overwritten with the masked string in the output image.
C1_EveryLocationMasked ==
    (stage = "Done" /\ response.success /\ output_file.written) =>
        \A k \in 1..Len(detection.all_locations) :
            \E r \in 1..Len(output_file.regions) :
                Redacts(output_file.regions[r], detection.all_locations[k], masked_number)

\* C9: an extracted identifier with zero resolved Locations succeeds by the
\* overlay: no region is redacted in place, the banner with the masked
\* identifier is drawn, the output image is written, locations_found is 0.
C9_OverlayFallback ==
    (/\ stage = "Done" /\ response.success
     /\ detection.found /\ detection.all_locations = <<>>)
        => /\ output_file.written
           /\ output_file.regions = <<>>
           /\ output_file.overlay = OverlayText(masked_number)
           /\ response.locations_found = 0

\* C11: when no identifier is extracted the pipeline ends in the failure
\* NoIdentifierDetected (status 422 in the API, exit code 1 in the CLI); the
\* mask is never formatted, nothing is rendered and no output file is written.
C11_NoIdentifierAborts ==
    (stage # "Detecting" /\ ~detection.found) =>
        /\ stage = "Failed"
        /\ response.status = (IF mode = "api" THEN 422 ELSE 1)
        /\ ~response.success
        /\ masked_number = None
        /\ output_file = NoFile
        /\ render_env = NoFault

\* an image that decodes and shows text, but no identifier, in the API
C11_Witness ==
    /\ stage = "Failed" /\ mode = "api" /\ image_ok /\ results # <<>>
    /\ ~detection.found
    /\ response.status = 422
    /\ output_file = NoFile

\* C12: when rendering one Location of a list raises, that Location is
\* skipped: the other Locations are still redacted, the output image is
\* written and the request succeeds.
C12_RenderFaultIsolated ==
    (/\ mode = "api" /\ stage \in {"Done", "Failed"} /\ Len(bboxes) >= 2
     /\ render_env.fault # 0 /\ render_env.write = "ok")
        => /\ stage = "Done" /\ response.success
           /\ output_file.written
           /\ \A k \in 1..Len(bboxes) :
                 k # render_env.fault =>
                     \E r \in 1..Len(output_file.regions) :
                         Redacts(output_file.regions[r], bboxes[k], masked_number)

\* the regions of the written image that were filled and redrawn in place
RedactedInPlace(file) == {r \in 1..Len(file.regions) : file.regions[r].filled}

\* C13: on successful completion locations_found equals the number of image
\* regions redacted in place in the returned image, whichever path rendered
\* it (resolved Locations, the masker's own text search, or the overlay).
C13_CountMatchesRedactions ==
    (mode = "api" /\ stage = "Done" /\ response.success /\ output_file.written) =>
        response.locations_found = Cardinality(RedactedInPlace(output_file))

\* what the caller is told when no identifier is detected
NoIdentifierStatus(m) == IF m = "api" THEN 422 ELSE 1

\* C14: a request whose input image cannot be decoded fails, and with a
\* reason the caller can tell from NoIdentifierDetected: an unreadable image
\* is never reported as "no identifier detected".
C14_DecodeFailureIsTyped ==
    (~image_ok /\ stage # "Detecting") =>
        /\ stage = "Failed"
        /\ response.status # NoIdentifierStatus(mode)

-----------------------------------------------------------------------------
(* Properties of _get_text_color (checked under SpecTextColor)             *)

\* C17: _get_text_color returns black exactly when the luminance
\* 0.299 R + 0.587 G + 0.114 B of the background, read as (B, G, R), is
\* greater than 128, and white otherwise; (250,250,250) gives black,
\* (10,10,10) gives white, and no other colour is returned.
C17_TextColorByLuminance ==
    pc = "done" =>
        LET B == background_color[1]
            G == background_color[2]
            R == background_color[3]
        IN  /\ text_color = <<0, 0, 0>> <=> 299 * R + 587 * G + 114 * B > 128000
            /\ text_color # <<0, 0, 0>> => text_color = <<255, 255, 255>>
            /\ background_color = <<250, 250, 250>> => text_color = <<0, 0, 0>>
            /\ background_color = <<10, 10, 10>> => text_color = <<255, 255, 255>>

\* a background whose answer depends on the component order: (b, g, r) =
\* (0, 150, 255) has luminance 164.3, read as (r, g, b) it would have 117.1
C17_Witness ==
    /\ pc = "done"
    /\ background_color = <<0, 150, 255>>
    /\ text_color = <<0, 0, 0>>

-----------------------------------------------------------------------------
(* Properties of the API host (checked under SpecHost)                     *)

\* r is inside process_single_image, between detection and the written output
InProcessSingleImage(r) == req[r].at \in {"ocr", "load", "locate", "render"}

\* C18: with one detector and one masker shared by all requests, the OCR
\* backend never executes for two requests at once, each request renders
\* into a buffer loaded from its own upload, and no two requests are inside
\* process_single_image at the same time.
C18_RequestsSerialized ==
    /\ Cardinality(ocr_users) <= 1
    /\ \A a, b \in DOMAIN req :
          a # b => ~(InProcessSingleImage(a) /\ InProcessSingleImage(b))
    /\ \A r \in DOMAIN req :
          /\ req[r].image \in {0, r}
          /\ req[r].output \in {0, r}
          /\ req[r].at = "render" => req[r].image = r

\* two requests in flight: one has written its output and waits in an await
\* while the OCR backend executes for the other
C18_Witness ==
    \E a, b \in DOMAIN req :
        /\ a # b
        /\ req[a].at \in {"await_store", "await_log"} /\ req[a].output = a
        /\ req[b].at = "ocr" /\ ocr_users = {b}

------------------------------------------------------------------------------
(* Properties of the padded and filled box (checked under SpecPad)         *)

\* the padding of lines 633-634
PaddingOf(b) == Max2(5, b[4] \div 10)

\* C23: for every box inside the image the padded box is the box expanded by
\* p = max(5, height div 10) on each of its four sides and then clamped to the
\* image: left/top edges max(0, x - p), max(0, y - p), right/bottom edges
\* min(W, x + width + p), min(H, y + height + p), also when the box is closer
\* than p to the left or top border.
C23_PaddedIsClampedExpansion ==
    (pc \in {"padded", "drawn"}) =>
        LET p == PaddingOf(location_box)
        IN  /\ padded_box[1] = Max2(0, location_box[1] - p)
            /\ padded_box[2] = Max2(0, location_box[2] - p)
            /\ padded_box[1] + padded_box[3]
                   = Min2(ImageWidth, location_box[1] + location_box[3] + p)
            /\ padded_box[2] + padded_box[4]
                   = Min2(ImageHeight, location_box[2] + location_box[4] + p)

\* b contains a
Contains(b, a) ==
    /\ b[1] <= a[1] /\ b[2] <= a[2]
    /\ a[1] + a[3] <= b[1] + b[3] /\ a[2] + a[4] <= b[2] + b[4]

NonEmpty(b) == b[3] > 0 /\ b[4] > 0

\* C24: for every box inside the image, the padded box that is filled and
\* redrawn contains the whole original box and lies inside the image, with a
\* positive width and height when the original box is not empty.
C24_FilledBoxCoversOriginal ==
    /\ (pc \in {"padded", "drawn"}) =>
          /\ Contains(padded_box, location_box)
          /\ InsideImage(padded_box)
          /\ NonEmpty(location_box) => NonEmpty(padded_box)
    /\ (pc = "drawn") =>
          /\ Contains(filled_box, location_box)
          /\ InsideImage(filled_box)
          /\ NonEmpty(location_box) => NonEmpty(filled_box)

C24_Witness ==
    /\ pc = "drawn" /\ NonEmpty(location_box)
    /\ location_box[1] < PaddingOf(location_box)
    /\ location_box[2] + location_box[4] = ImageHeight
    /\ filled_box # location_box

------------------------------------------------------------------------------
(* Properties of _get_background_color (checked under SpecBackground)      *)

\* C25: the colour comes from the first of perimeter points, bands, the 8
\* neighbours of the top-left corner, light gray (240,240,240) that yields a
\* sample: a later strategy decides only when every earlier one yielded none,
\* the bands decide whenever the perimeter yields none and some band is
\* available, and every returned channel is within 0..255.
C25_FirstStrategyWithSamplesDecides ==
    (pc = "done") =>
        LET perimeter == PerimeterPoints(bg_box) # {}
            bands == AvailableBands(bg_box) # {}
            neighbours == BorderPixels(bg_box) # {}
        IN  /\ bg_strategy \in {"perimeter", "bands", "neighbours", "constant"}
            /\ (bg_strategy = "perimeter") => perimeter
            /\ (bg_strategy = "bands") => ~perimeter /\ bands
            /\ (bg_strategy = "neighbours") => ~perimeter /\ ~bands /\ neighbours
            /\ (bg_strategy = "constant") =>
                   ~perimeter /\ ~bands /\ ~neighbours /\ background_color = LightGray
            /\ (~perimeter /\ bands) => bg_strategy = "bands"
            /\ (bg_strategy # "constant") => background_color = image_color
            /\ \A c \in 1..3 : background_color[c] \in 0..255

\* a box below the image: no perimeter point is in the image, the band above is
C25_Witness ==
    /\ pc = "done" /\ bg_strategy = "bands" /\ background_color = <<12, 130, 255>>
    /\ AvailableBands(bg_box) = {"above"} /\ bg_box[2] > ImageHeight

C25_WitnessNeighbours == pc = "done" /\ bg_strategy = "neighbours" /\ InsideImage(bg_box)
C25_WitnessConstant == pc = "done" /\ bg_strategy = "constant" /\ image_color # LightGray
C25_WitnessPerimeter == pc = "done" /\ bg_strategy = "perimeter" /\ InsideImage(bg_box)

------------------------------------------------------------------------------
(* Properties of _calculate_font_scale (checked under SpecFont)            *)

ScaleSet == {FontScales[i] : i \in 1..Len(FontScales)}

\* the scales at which the text is at most 90% of the width and 80% of the height
FittingScales ==
    {s \in ScaleSet : LET size == TextSize(MaskedText, text_metrics, s)
                      IN  10 * size[1] <= 9 * font_box[3] /\ 10 * size[2] <= 8 * font_box[4]}

\* C26: the scale returned is a member of 2.0, 1.5, 1.2, 1.0, 0.8, 0.6, 0.5,
\* 0.4: the largest at which the text is at most 90% of the box width and 80%
\* of the box height, and 0.4 when none fits; when the returned scale fits,
\* the centred text lies inside the padded box.
C26_LargestFittingScale ==
    /\ (pc \in {"scaled", "placed"}) =>
          /\ font_scale \in ScaleSet
          /\ FittingScales # {} =>
                 font_scale \in FittingScales /\ \A s \in FittingScales : s <= font_scale
          /\ FittingScales = {} => font_scale = 4
    /\ (pc = "placed" /\ font_scale \in FittingScales) =>
          LET size == TextSize(MaskedText, text_metrics, font_scale)
          IN  /\ font_box[1] <= text_origin[1]
              /\ text_origin[1] + size[1] <= font_box[1] + font_box[3]
              /\ font_box[2] <= text_origin[2] - size[2]
              /\ text_origin[2] <= font_box[2] + font_box[4]

C26_Witness ==
    /\ pc = "placed" /\ font_scale = 12
    /\ FittingScales = {4, 5, 6, 8, 10, 12}

C26_WitnessNoneFits == pc = "placed" /\ FittingScales = {} /\ font_box[3] > 0

------------------------------------------------------------------------------
(* Properties of the render entry points (checked under SpecRender)        *)

\* C27: when the image cannot be decoded, each render entry point fails fast:
\* it returns False before any Location is processed, without running the
\* text location or the overlay and without writing to the output path.
C27_DecodeFailureFailsFast ==
    (entry_point \in EntryPoints /\ ~image_ok) =>
        /\ render_pos \in {"load", "returned"}
        /\ render_trace \in {<<>>, <<"load">>}
        /\ located_box = None
        /\ ~written
        /\ (render_pos = "returned") => returned = "False"

C27_Witness ==
    /\ entry_point = "replace_text_in_image" /\ ~image_ok
    /\ results = <<Fragment(FullText, 100, 0, 90)>>
    /\ render_pos = "returned" /\ returned = "False"

C27_WitnessAllLocations ==
    /\ entry_point = "replace_text_at_all_locations" /\ ~image_ok /\ Len(bboxes) = 2
    /\ render_pos = "returned" /\ returned = "False"

\* the number of writes the call has made
IsWriteStep(step) == step = "write"
Writes == Len(SelectSeq(render_trace, IsWriteStep))

\* C28: a render entry point returns True only if the output image has been
\* written, once, after all Locations were processed; when the write does not
\* succeed the call returns False; when the call returns False no output
\* image has been written.
C28_SuccessMeansWritten ==
    (entry_point \in EntryPoints /\ render_pos = "returned") =>
        /\ (returned = "True") =>
               /\ written /\ Writes = 1
               /\ render_trace[Len(render_trace)] = "write"
               /\ Processed = Len(RenderBoxes)
        /\ (Writes = 1 /\ render_env.write # "ok") => returned = "False"
        /\ (returned = "False") => ~written

------------------------------------------------------------------------------
(* Properties of detect_with_multiple_methods (checked under SpecMulti)    *)

\* C30: detect_with_multiple_methods leaves the configured OCR backend as it
\* was: after the call use_easyocr has the value it had before, so a later
\* detect_aadhaar_number_with_all_locations resolves as it would have before.
C30_BackendUnchanged ==
    /\ (pc \in {"tried", "done"}) => use_easyocr = flag_before
    /\ (pc = "done") =>
           detection = detect_aadhaar_number_with_all_locations(
                           image_ok, flag_before, results, tesseract_text)

====
